---- MODULE Spec2Model ----
(***************************************************************************)
(* Token-detail retrieval and classification engine of                     *)
(* spl_token_analysis.py: the account decoder, the policy classifier, the  *)
(* retrying single-address lookup get_token_details_async with its         *)
(* provenance walk verify_pump_token, the byte-level decode of the         *)
(* metadata account in get_metadata, and the batch runner                  *)
(* process_tokens_concurrently.                                            *)
(*                                                                         *)
(* Conventions.  An Optional[T] value is a set of at most one element:     *)
(* None is {} and a present value v is {v}.  Delays are in seconds.  A     *)
(* token address is a sequence of one-character strings.                   *)
(***************************************************************************)
EXTENDS Integers, Sequences, FiniteSets, TLC

VARIABLES
    pc,               \* position of the running operation
    address,          \* token_address argument of the operation
    account_data,     \* Optional: data["result"]["value"] handed to process_token_data
    result,           \* value returned by the operation
    retry,            \* get_token_details_async: index of the for loop
    metadata,         \* get_token_details_async: Optional metadata dict
    pump,             \* get_token_details_async: is_genuine_pump_fun_token,
                      \*   first_transaction, transaction_count
    m_retry,          \* get_metadata: index of the for loop
    before,           \* verify_pump_token: Optional paging cursor
    total_signatures, \* verify_pump_token: signatures collected so far
    first_tx_sig,     \* verify_pump_token: Optional genesis candidate
    retry_count,      \* verify_pump_token: retries of the getTransaction loop
    sig_retry_count,  \* get_signatures_batch: retries of the running call
    history,          \* upstream: number of transactions of the address
    outcomes,         \* observed: outcome of each account-info request of the lookup
    sleeps,           \* observed: backoff sleeps of get_token_details_async
    last_status,      \* observed: response.status of the latest account-info answer
    walk,             \* observed: what verify_pump_token did in the running pass
    token_addresses,  \* process_tokens_concurrently: the input list
    semaphore,        \* process_tokens_concurrently: free slots of the semaphore
    tasks,            \* process_tokens_concurrently: the process_single_token tasks
    completed,        \* observed: task indexes in the order the tasks returned
    gathered,         \* Optional: the list asyncio.gather hands to the caller
    decoded_data,     \* get_metadata: the bytes of the metadata account
    layout,           \* observed: what decoded_data was built from
    session_state,    \* app.py: st.session_state of the page
    report            \* observed: Optional outcome of asyncio.run(get_token())

\* ---------------------------------------------------------------- bounds

\* longest extension list of an account payload fed to the classifier
MaxExt == 4

\* longest extension list of a Token-2022 payload served to a lookup
MaxLookupExt == 1

\* most transactions in the history of an address
MaxHistory == 5

\* page size of getSignaturesForAddress (1000 in the source, scaled down)
BATCH_SIZE == 2

\* retry counters of the unbounded loops stop counting here: the wait
\* min(2 * 1.5 ** n, 10) is 10 seconds for every n >= 4
RetryCountCap == 4

\* longest input list of a batch
MaxBatch == 2

\* most null bytes of padding after a name or a symbol
MaxPad == 2

\* ------------------------------------------------------ program constants

TOKEN_PROGRAM == "TokenkegQfeZyiNwAJbNbGKPFXCWuBvf9Ss623VQ5DA"

TOKEN_2022_PROGRAM == "TokenzQdBNbLqP5VEhdkAS6EPFLC1PHnBqCXEpPxuEb"

SYSTEM_PROGRAM == "11111111111111111111111111111111"

\* an owner that is none of the three programs above
OTHER_PROGRAM == "Stake11111111111111111111111111111111111111"

MAX_RETRIES == 4

CONCURRENT_LIMIT == 1

RETRY_DELAY == 2

None == {}

Some(v) == {v}

\* the value held by a present Optional
TheValue(opt) == CHOOSE v \in opt : TRUE

\* dict.get(key, default) on an Optional-valued entry that may be missing
GetOr(opt, default) == IF opt = None THEN default ELSE TheValue(opt)

\* ---------------------------------------------------------------- inputs

BoundedSeq(S, n) == UNION { [1..k -> S] : k \in 0..n }

EmptyState ==
    [delegate |-> None, authority |-> None, fee |-> None, name |-> None, symbol |-> None]

\* one entry of info["extensions"]: the type tag and the keys of its state map
ExtensionEntry(tag, state) == [extension |-> tag, state |-> state]

ExtensionEntries ==
    { ExtensionEntry("tokenMetadata",
                     [EmptyState EXCEPT !.name = Some("ExtName"), !.symbol = Some("EXT")]),
      ExtensionEntry("permanentDelegate", [EmptyState EXCEPT !.delegate = Some("Delegate1")]),
      ExtensionEntry("transferFeeConfig", [EmptyState EXCEPT !.fee = Some(0)]),
      ExtensionEntry("transferFeeConfig", [EmptyState EXCEPT !.fee = Some(50)]),
      ExtensionEntry("transferHook", [EmptyState EXCEPT !.authority = Some("HookAuth1")]),
      ExtensionEntry("transferHook", EmptyState),
      ExtensionEntry("confidentialTransferMint",
                     [EmptyState EXCEPT !.authority = Some("ConfAuth1")]),
      ExtensionEntry("metadataPointer", [EmptyState EXCEPT !.authority = Some("PtrAuth1")]) }

Owners == {TOKEN_PROGRAM, TOKEN_2022_PROGRAM, SYSTEM_PROGRAM, OTHER_PROGRAM}

\* account payloads (data["result"]["value"]) with at most n extension entries;
\* owner None is a payload without the 'owner' key
AccountPayloads(n) ==
    [ owner : {Some(o) : o \in Owners} \cup {None},
      freezeAuthority : {None, Some("FreezeAuth1")},
      name : {None, Some("InfoName")},
      symbol : {None},
      extensions : BoundedSeq(ExtensionEntries, n) ]

Addresses ==
    { <<"S", "o", "L">>,
      <<"x", "P", "u", "m", "p">>,
      <<"0", "x">> }

\* -------------------------------------------------------------- TokenDetails

Token2022Extensions ==
    [ permanent_delegate |-> None,
      transfer_fee |-> None,
      transfer_hook_authority |-> None,
      confidential_transfers_authority |-> None ]

\* the dataclass constructor with its defaults
TokenDetails(name, symbol, addr, owner_program, freeze_authority) ==
    [ name |-> name,
      symbol |-> symbol,
      address |-> addr,
      owner_program |-> owner_program,
      freeze_authority |-> freeze_authority,
      update_authority |-> None,
      extensions |-> None,
      first_transaction |-> None,
      transaction_count |-> None,
      is_genuine_pump_fun_token |-> FALSE,
      security_review |-> "FAILED" ]

Lower(c) ==
    CASE c = "P" -> "p"
      [] c = "U" -> "u"
      [] c = "M" -> "m"
      [] c = "S" -> "s"
      [] c = "L" -> "l"
      [] OTHER -> c

\* token_address.lower().endswith('pump')
EndsWithPump(addr) ==
    /\ Len(addr) >= 4
    /\ [i \in 1..4 |-> Lower(addr[Len(addr) - 4 + i])] = <<"p", "u", "m", "p">>

get_owner_program_label(owner) ==
    CASE owner = TOKEN_PROGRAM -> "Token Program"
      [] owner = TOKEN_2022_PROGRAM -> "Token 2022 Program"
      [] OTHER -> "Unknown Owner"

\* variant: the authority of an entry of any other type is taken as a transfer
\* hook authority
ApplyExtension_OtherAsHook(acc, extension) ==
    LET td == acc[1]
        ext == acc[2]
        state == extension.state
    IN  CASE extension.extension = "tokenMetadata" ->
               << [td EXCEPT !.name = GetOr(state.name, td.name),
                             !.symbol = GetOr(state.symbol, td.symbol)], ext >>
          [] extension.extension = "permanentDelegate" ->
               << td, [ext EXCEPT !.permanent_delegate = state.delegate] >>
          [] extension.extension = "transferFeeConfig" ->
               << td, [ext EXCEPT !.transfer_fee = state.fee] >>
          [] extension.extension = "confidentialTransferMint" ->
               << td, [ext EXCEPT !.confidential_transfers_authority = state.authority] >>
          [] OTHER ->
               << td, [ext EXCEPT !.transfer_hook_authority = state.authority] >>

\* one iteration of the loop over info["extensions"]: acc is <<token_details, extensions>>
ApplyExtension(acc, extension) ==
    LET td == acc[1]
        ext == acc[2]
        state == extension.state
    IN  CASE extension.extension = "tokenMetadata" ->
               << [td EXCEPT !.name = GetOr(state.name, td.name),
                             !.symbol = GetOr(state.symbol, td.symbol)], ext >>
          [] extension.extension = "permanentDelegate" ->
               << td, [ext EXCEPT !.permanent_delegate = state.delegate] >>
          [] extension.extension = "transferFeeConfig" ->
               << td, [ext EXCEPT !.transfer_fee = state.fee] >>
          [] extension.extension = "transferHook" ->
               << td, [ext EXCEPT !.transfer_hook_authority = state.authority] >>
          [] extension.extension = "confidentialTransferMint" ->
               << td, [ext EXCEPT !.confidential_transfers_authority = state.authority] >>
          [] OTHER -> acc

RECURSIVE FoldExtensions(_, _)
FoldExtensions(acc, exts) ==
    IF exts = << >> THEN acc
    ELSE FoldExtensions(ApplyExtension(acc, Head(exts)), Tail(exts))

\* variant: a zero fee counts as a fee
FeeIsRisk_AnyFee(transfer_fee) == transfer_fee # None

\* extensions.transfer_fee not in [None, 0]
FeeIsRisk(transfer_fee) == transfer_fee # None /\ transfer_fee # Some(0)

has_security_features(td, ext) ==
    \/ td.freeze_authority # None
    \/ ext.permanent_delegate # None
    \/ ext.confidential_transfers_authority # None
    \/ ext.transfer_hook_authority # None
    \/ FeeIsRisk(ext.transfer_fee)

\* variant: the extension set is not attached to the record
process_token_2022_extensions_Unset(token_details, info) ==
    LET folded == FoldExtensions(<<token_details, Token2022Extensions>>, info.extensions)
        td == folded[1]
        ext == folded[2]
    IN  [td EXCEPT !.security_review =
                       IF has_security_features(td, ext) THEN "FAILED" ELSE "PASSED"]

process_token_2022_extensions(token_details, info) ==
    LET folded == FoldExtensions(<<token_details, Token2022Extensions>>, info.extensions)
        td == folded[1]
        ext == folded[2]
    IN  [td EXCEPT !.extensions = Some(ext),
                   !.security_review =
                       IF has_security_features(td, ext) THEN "FAILED" ELSE "PASSED"]

\* variant: the verdict does not look at the freeze authority
StandardReview_AlwaysPassed(freeze_authority) == "PASSED"

\* line 471: the verdict of a base token program account
StandardReview(freeze_authority) == IF freeze_authority = None THEN "PASSED" ELSE "FAILED"

\* variant: an unrecognized owner keeps the dataclass default verdict
NotATokenDetails_DefaultReview(addr, owner_program) ==
    TokenDetails("N/A", "N/A", addr, owner_program, None)

NotATokenDetails(addr, owner_program) ==
    [TokenDetails("N/A", "N/A", addr, owner_program, None)
        EXCEPT !.security_review = "NOT_A_TOKEN"]

\* process_token_data for a payload that is not null: <<TokenDetails, owner_program>>
\* (the else branch of line 475 is dead after the check of line 442)
process_token_data(data, addr) ==
    LET owner_program == GetOr(data.owner, "N/A")
        base_details ==
            TokenDetails(GetOr(data.name, "N/A"), GetOr(data.symbol, "N/A"), addr,
                         <<owner_program, get_owner_program_label(owner_program)>>,
                         data.freezeAuthority)
    IN  IF owner_program = SYSTEM_PROGRAM
        THEN << NotATokenDetails(addr, <<"System Program", "">>), owner_program >>
        ELSE IF owner_program \notin {TOKEN_PROGRAM, TOKEN_2022_PROGRAM}
        THEN << NotATokenDetails(addr, <<owner_program, "Not a token program">>),
                owner_program >>
        ELSE IF owner_program = TOKEN_PROGRAM
        THEN << [base_details EXCEPT !.security_review =
                    StandardReview(base_details.freeze_authority)],
                owner_program >>
        ELSE << process_token_2022_extensions(base_details, data), owner_program >>

\* variant: the verdict is written inside the pump-only block
ReviewEntry_PumpOnly(td) ==
    IF EndsWithPump(td.address) THEN [security_review |-> td.security_review] ELSE << >>

\* line 199: result['security_review'] = self.security_review
ReviewEntry(td) == [security_review |-> td.security_review]

\* TokenDetails.to_dict: the flattened mapping
to_dict(td) ==
    LET base ==
            [ name |-> td.name,
              symbol |-> td.symbol,
              address |-> td.address,
              owner_program |-> td.owner_program,
              freeze_authority |-> td.freeze_authority,
              update_authority |-> td.update_authority ]
        withExt ==
            IF td.extensions # None
            THEN LET e == TheValue(td.extensions)
                 IN  base @@ [ permanent_delegate |-> e.permanent_delegate,
                               transaction_fees |-> e.transfer_fee,
                               transfer_hook |-> e.transfer_hook_authority,
                               confidential_transfers |-> e.confidential_transfers_authority ]
            ELSE base
        withPump ==
            IF EndsWithPump(td.address)
            THEN (IF td.first_transaction # None
                  THEN [first_transaction |-> td.first_transaction] ELSE << >>)
                 @@ (IF td.transaction_count # None
                     THEN [transaction_count |-> td.transaction_count] ELSE << >>)
                 @@ [is_genuine_pump_fun_token |-> td.is_genuine_pump_fun_token]
                 @@ withExt
            ELSE withExt
    IN  ReviewEntry(td) @@ withPump

\* ------------------------------------------------------------ return values

Pending == [kind |-> "pending", details |-> None, owner_program |-> None, error |-> None]

\* (token_details, owner_program)
ReturnDetails(pair) ==
    [kind |-> "TokenDetails", details |-> Some(pair[1]), owner_program |-> Some(pair[2]),
     error |-> None]

\* an error string: its fixed text and, Optional, the value formatted into it
ErrorString(text, detail) == [text |-> text, detail |-> detail]

\* (error string, None)
ReturnError(text, detail) ==
    [kind |-> "str", details |-> None, owner_program |-> None,
     error |-> Some(ErrorString(text, detail))]

\* --------------------------------------------------------------- upstream

PUMP_PROGRAM == "6EF8rrecthR5Dkzon8Nwu78hRvfCKubJ14M5uBEwF6P"

PUMP_UPDATE_AUTHORITY == "TSLvdd1pWpHVjahSpsvCXUbgwsL3JAcvokwaKt1eokM"

\* session.post(...) raised before a response was received
RaisedBy(exc) == [kind |-> "raise", exc |-> exc]

HttpResponse(status, body) == [kind |-> "response", status |-> status, body |-> body]

\* response.json() raises ContentTypeError, a subclass of aiohttp.ClientError
WrongContentType == [json |-> "wrong_content_type"]

\* response.json() raises json.JSONDecodeError, which is no aiohttp.ClientError
MalformedJson == [json |-> "malformed"]

\* {"error": {"code": code, ...}}
ErrorBody(code) == [json |-> "error", code |-> code]

\* a body with no "result" key, or with a null result
NoResult == [json |-> "no_result"]

\* {"result": {"value": value}}; value is an Optional
ResultBody(value) == [json |-> "result", value |-> value]

Exceptions == {"ClientError", "TimeoutError"}

\* payloads an account-info response of the lookup may carry
LookupPayloads ==
    AccountPayloads(0)
        \cup {p \in AccountPayloads(MaxLookupExt) :
                /\ p.owner = Some(TOKEN_2022_PROGRAM)
                /\ p.freezeAuthority = None
                /\ p.name = None}

PrimaryResponses ==
    {RaisedBy(e) : e \in Exceptions}
        \cup {HttpResponse(429, WrongContentType), HttpResponse(429, ErrorBody(429))}
        \cup {HttpResponse(500, b) : b \in {WrongContentType, MalformedJson, ErrorBody(-32603)}}
        \cup {HttpResponse(200, b) :
                b \in {ErrorBody(429), ErrorBody(-32602), NoResult, ResultBody(None)}
                        \cup {ResultBody(Some(p)) : p \in LookupPayloads}}

\* ------------------------------------------------- binary metadata decode

\* decoded_data[i:j]: from byte i, 0-based, up to byte j exclusive, as far as
\* there are bytes
Slice(buf, i, j) == SubSeq(buf, i + 1, IF j < Len(buf) THEN j ELSE Len(buf))

\* int.from_bytes(bs, byteorder='little'); 0 for no bytes
RECURSIVE FromBytesLittle(_)
FromBytesLittle(bs) ==
    IF bs = << >> THEN 0 ELSE bs[1] + 256 * FromBytesLittle(Tail(bs))

Base58Alphabet ==
    << "1", "2", "3", "4", "5", "6", "7", "8", "9", "A", "B", "C", "D", "E", "F", "G",
       "H", "J", "K", "L", "M", "N", "P", "Q", "R", "S", "T", "U", "V", "W", "X", "Y",
       "Z", "a", "b", "c", "d", "e", "f", "g", "h", "i", "j", "k", "m", "n", "o", "p",
       "q", "r", "s", "t", "u", "v", "w", "x", "y", "z" >>

\* the bytes of a big-endian number taken three at a time: its digits in base
\* 2^24
Limbs(bs) ==
    LET padded == [i \in 1..((3 - (Len(bs) % 3)) % 3) |-> 0] \o bs
    IN  [k \in 1..(Len(padded) \div 3) |->
            padded[3 * k - 2] * 65536 + padded[3 * k - 1] * 256 + padded[3 * k]]

\* a number in base 2^24 divided by 58, carry being the remainder brought in:
\* << quotient, remainder >>
RECURSIVE DivBy58(_, _)
DivBy58(limbs, carry) ==
    IF limbs = << >> THEN << << >>, carry >>
    ELSE LET cur == carry * 16777216 + limbs[1]
             rest == DivBy58(Tail(limbs), cur % 58)
         IN  << << cur \div 58 >> \o rest[1], rest[2] >>

\* the base58 digits of a number in base 2^24, none for zero
RECURSIVE Base58Digits(_)
Base58Digits(limbs) ==
    IF \A i \in 1..Len(limbs) : limbs[i] = 0 THEN ""
    ELSE LET qr == DivBy58(limbs, 0)
         IN  Base58Digits(qr[1]) \o Base58Alphabet[qr[2] + 1]

\* one "1" for every leading zero byte
RECURSIVE LeadingOnes(_)
LeadingOnes(bs) ==
    IF bs = << >> \/ bs[1] # 0 THEN "" ELSE "1" \o LeadingOnes(Tail(bs))

\* str(PublicKey(bs)): the base58 text of the key
Base58(bs) == LeadingOnes(bs) \o Base58Digits(Limbs(bs))

\* the character of a one-byte UTF-8 sequence
AsciiChar(byte) ==
    CASE byte = 0 -> "\\x00"
      [] byte = 65 -> "A"
      [] byte = 67 -> "C"
      [] byte = 69 -> "E"
      [] byte = 77 -> "M"
      [] byte = 78 -> "N"
      [] byte = 84 -> "T"
      [] byte = 97 -> "a"
      [] byte = 101 -> "e"
      [] byte = 109 -> "m"
      [] byte = 116 -> "t"
      [] OTHER -> "?"

\* number of bytes of the UTF-8 sequence a byte starts; 0 for a byte that starts
\* none
SequenceLength(byte) ==
    IF byte < 128 THEN 1
    ELSE IF byte >= 194 /\ byte <= 223 THEN 2
    ELSE IF byte >= 224 /\ byte <= 239 THEN 3
    ELSE IF byte >= 240 /\ byte <= 244 THEN 4
    ELSE 0

\* the code point of a multi-byte sequence, written U+ and its number
RECURSIVE CodePoint(_, _)
CodePoint(bs, acc) ==
    IF bs = << >> THEN acc ELSE CodePoint(Tail(bs), acc * 64 + (bs[1] - 128))

\* bytes.decode('utf-8') as a sequence of characters; None stands for
\* UnicodeDecodeError
RECURSIVE Utf8Chars(_)
Utf8Chars(bs) ==
    IF bs = << >> THEN Some(<< >>)
    ELSE LET n == SequenceLength(bs[1])
         IN  IF n = 0 \/ Len(bs) < n THEN None
             ELSE IF \E k \in 2..n : bs[k] < 128 \/ bs[k] > 191 THEN None
             ELSE LET char == IF n = 1 THEN AsciiChar(bs[1])
                              ELSE "U+" \o ToString(
                                       CodePoint(SubSeq(bs, 2, n),
                                                 bs[1] - (IF n = 2 THEN 192
                                                          ELSE IF n = 3 THEN 224 ELSE 240)))
                      rest == Utf8Chars(SubSeq(bs, n + 1, Len(bs)))
                  IN  IF rest = None THEN None ELSE Some(<< char >> \o TheValue(rest))

\* variant: the padding is kept
RStripNul_Keep(chars) == chars

\* str.rstrip('\x00')
RECURSIVE RStripNul(_)
RStripNul(chars) ==
    IF chars # << >> /\ chars[Len(chars)] = "\\x00"
    THEN RStripNul(SubSeq(chars, 1, Len(chars) - 1))
    ELSE chars

RECURSIVE Join(_)
Join(chars) == IF chars = << >> THEN "" ELSE chars[1] \o Join(Tail(chars))

\* decoded_data[offset:offset + length].decode('utf-8').rstrip('\x00')
DecodedString(buf, offset, length) ==
    LET chars == Utf8Chars(Slice(buf, offset, offset + length))
    IN  IF chars = None THEN None ELSE Some(Join(RStripNul(TheValue(chars))))

\* lines 98-141: the fields of a metadata account read at their byte offsets;
\* None when the buffer is shorter than 8 bytes or a step of the parse raises
\* (PublicKey takes 32 bytes and nothing else)
DecodeBytes(buf) ==
    IF Len(buf) < 8 THEN None
    ELSE LET key == Slice(buf, 1, 1 + 32)
             name_offset == 1 + 32 + 32 + 4
             name_length == FromBytesLittle(Slice(buf, 1 + 32 + 32, name_offset))
             name == IF name_length > 0
                     THEN DecodedString(buf, name_offset, name_length)
                     ELSE Some("N/A")
             symbol_offset == name_offset + name_length + 4
             symbol_length == FromBytesLittle(Slice(buf, name_offset + name_length,
                                                    symbol_offset))
             symbol == IF symbol_length > 0
                       THEN DecodedString(buf, symbol_offset, symbol_length)
                       ELSE Some("N/A")
         IN  IF Len(key) # 32 \/ name = None \/ symbol = None THEN None
             ELSE Some([ name |-> TheValue(name),
                         symbol |-> TheValue(symbol),
                         update_authority |-> Base58(key) ])

\* the 32 bytes of PUMP_UPDATE_AUTHORITY
PumpAuthorityKey ==
    << 6, 197, 193, 206, 99, 141, 37, 103, 210, 100, 104, 176, 94, 185, 81, 209,
       162, 141, 204, 110, 18, 52, 130, 181, 198, 117, 20, 151, 112, 230, 43, 242 >>

\* another key, with two leading zero bytes
OtherAuthorityKey == << 0, 0 >> \o [i \in 1..30 |-> 7]

MintKey == [i \in 1..32 |-> 9]

\* a string and its UTF-8 bytes
Utf8Text(text, bytes) == [text |-> text, bytes |-> bytes]

MetaName == Utf8Text("MetaName", << 77, 101, 116, 97, 78, 97, 109, 101 >>)

META == Utf8Text("META", << 77, 69, 84, 65 >>)

\* the names and symbols of the metadata accounts served, one of them with a
\* two-byte character
NameTexts == {Utf8Text("", << >>), MetaName, Utf8Text("CU+233", << 67, 195, 169 >>)}

SymbolTexts == {Utf8Text("", << >>), META}

\* n as four bytes, least significant first
LittleEndian4(n) == << n % 256, (n \div 256) % 256, 0, 0 >>

Nulls(n) == [i \in 1..n |-> 0]

\* a string field: the declared length, the bytes and the null padding
StringField(t, pad) == LittleEndian4(Len(t.bytes) + pad) \o t.bytes \o Nulls(pad)

\* the well-formed buffer of a layout
BuildBuffer(l) ==
    << 4 >> \o l.authority \o MintKey
        \o StringField(l.name, l.name_pad) \o StringField(l.symbol, l.symbol_pad)

\* what a buffer is made of, and how many of its bytes are there
Layouts ==
    { l \in [ authority : {PumpAuthorityKey, OtherAuthorityKey},
              name : NameTexts,
              name_pad : 0..MaxPad,
              symbol : SymbolTexts,
              symbol_pad : 0..MaxPad,
              cut : 0..(1 + 32 + 32 + 4 + 8 + MaxPad + 4 + 4 + MaxPad) ] :
        l.cut <= Len(BuildBuffer(l)) }

\* a buffer with a byte in its name that no UTF-8 sequence starts with
BadUtf8Buffer ==
    << 4 >> \o OtherAuthorityKey \o MintKey \o LittleEndian4(3) \o << 77, 255, 101 >>
        \o StringField(META, 0)

\* the bytes of the metadata accounts a lookup is served: a whole account for
\* each authority, the first six bytes of one, and one whose name is not UTF-8
WholeBuffers ==
    { BuildBuffer([ authority |-> k, name |-> MetaName, name_pad |-> 1,
                    symbol |-> META, symbol_pad |-> 0 ]) :
        k \in {PumpAuthorityKey, OtherAuthorityKey} }

ServedBuffers ==
    WholeBuffers \cup {Slice(b, 0, 6) : b \in WholeBuffers} \cup {BadUtf8Buffer}

MetadataDicts == {TheValue(DecodeBytes(b)) : b \in WholeBuffers}

\* metadata accounts (data["result"]["value"]): is value["data"][0] there and
\* base64 text, and what does the decode of its bytes give
MetadataAccounts ==
    {[readable |-> TRUE, parsed |-> DecodeBytes(b)] : b \in ServedBuffers}
        \cup {[readable |-> FALSE, parsed |-> None]}

MetadataResponses ==
    {RaisedBy(e) : e \in Exceptions}
        \cup {HttpResponse(429, WrongContentType), HttpResponse(500, ErrorBody(-32603))}
        \cup {HttpResponse(200, b) :
                b \in {WrongContentType, ErrorBody(429), NoResult, ResultBody(None)}
                        \cup {ResultBody(Some(a)) : a \in MetadataAccounts}}

SignatureResponses ==
    {RaisedBy(e) : e \in Exceptions}
        \cup {HttpResponse(429, WrongContentType), HttpResponse(429, ErrorBody(429)),
              HttpResponse(200, ErrorBody(429)), HttpResponse(200, ErrorBody(-32602)),
              HttpResponse(200, NoResult),
              HttpResponse(200, ResultBody(Some("page"))),
              HttpResponse(200, ResultBody(Some("malformed_page")))}

\* an inner instruction the RPC node parsed as createAccount
CreateAccount(owner) == [parsed |-> TRUE, type |-> "createAccount", owner |-> owner]

\* a parsed inner instruction of another type whose info names an owner too
Assign(owner) == [parsed |-> TRUE, type |-> "assign", owner |-> owner]

\* an inner instruction without a "parsed" key
Unparsed == [parsed |-> FALSE]

\* the inner instructions of a transaction, the groups of
\* meta.innerInstructions laid end to end
InnerInstructionLists ==
    { << >>,
      << CreateAccount(PUMP_PROGRAM) >>,
      << CreateAccount(SYSTEM_PROGRAM) >>,
      << Unparsed, Assign(PUMP_PROGRAM) >>,
      << CreateAccount(SYSTEM_PROGRAM), CreateAccount(PUMP_PROGRAM) >> }

\* a getTransaction result with its meta
TxResult(instructions) == [meta |-> TRUE, innerInstructions |-> instructions]

\* a getTransaction result whose "meta" is null, on which line 318 raises
TxMetaNull == [meta |-> FALSE]

TransactionResponses ==
    {RaisedBy(e) : e \in Exceptions}
        \cup {HttpResponse(429, WrongContentType),
              HttpResponse(200, WrongContentType),
              HttpResponse(200, ErrorBody(-32602)),
              HttpResponse(200, NoResult),
              HttpResponse(200, ResultBody(None)),
              HttpResponse(200, ResultBody(Some(TxMetaNull)))}
        \cup {HttpResponse(200, ResultBody(Some(TxResult(l)))) : l \in InnerInstructionLists}

Min(a, b) == IF a < b THEN a ELSE b

RECURSIVE Pow2(_)
Pow2(n) == IF n = 0 THEN 1 ELSE 2 * Pow2(n - 1)

\* PublicKey.from_string accepts base58 text only
IsValidPubkey(addr) == \A i \in 1..Len(addr) : addr[i] \notin {"0", "O", "I", "l"}

\* the page getSignaturesForAddress serves for the cursor b: newest first, the
\* signatures older than b, at most BATCH_SIZE of them
SignaturePage(b) ==
    LET top == IF b = None THEN history ELSE TheValue(b) - 1
        n == Min(BATCH_SIZE, top)
    IN  [i \in 1..n |-> [signature |-> top - i + 1]]

\* ------------------------------------------------------ outcome of a request

\* get_token_details_async: how lines 378-424 treat the account-info response
PrimaryOutcome(resp) ==
    IF resp.kind = "raise"
    THEN (IF resp.exc = "ClientError" THEN "client_error" ELSE "unexpected")
    ELSE IF resp.status = 429 THEN "rate_limited"
    ELSE IF resp.body.json = "wrong_content_type" THEN "client_error"
    ELSE IF resp.body.json = "malformed" THEN "unexpected"
    ELSE IF resp.body.json = "error" THEN "rpc_error"
    ELSE IF resp.body.json = "no_result" THEN "no_data"
    ELSE IF resp.body.value = None THEN "unexpected"
    ELSE "value"

\* get_metadata: how lines 76-148 treat the response
MetadataOutcome(resp) ==
    IF resp.kind = "raise" THEN "exception"
    ELSE IF resp.status = 429 THEN "rate_limited"
    ELSE IF resp.status # 200 THEN "none"
    ELSE IF resp.body.json \in {"wrong_content_type", "malformed"} THEN "exception"
    ELSE IF resp.body.json \in {"error", "no_result"} THEN "none"
    ELSE IF resp.body.value = None THEN "none"
    ELSE IF ~TheValue(resp.body.value).readable THEN "exception"
    ELSE "account"

\* get_signatures_batch: how lines 227-246 treat the response
SignatureOutcome(resp) ==
    IF resp.kind = "raise" THEN "exception"
    ELSE IF resp.body.json \in {"wrong_content_type", "malformed"} THEN "exception"
    ELSE IF resp.body.json = "error"
    THEN (IF resp.body.code = 429 THEN "rate_limited" ELSE "empty")
    ELSE IF resp.body.json = "no_result" THEN "empty"
    ELSE TheValue(resp.body.value)

\* variant: the instruction type is not looked at
CreatedByPump_AnyType(instructions) ==
    \E i \in 1..Len(instructions) :
        /\ instructions[i].parsed
        /\ instructions[i].owner = PUMP_PROGRAM

\* lines 320-328: some inner instruction is a parsed createAccount whose owner is
\* the launch program
CreatedByPump(instructions) ==
    \E i \in 1..Len(instructions) :
        /\ instructions[i].parsed
        /\ instructions[i].type = "createAccount"
        /\ instructions[i].owner = PUMP_PROGRAM

\* verify_pump_token: how lines 303-334 treat the getTransaction response
TransactionOutcome(resp) ==
    IF resp.kind = "raise" THEN "exception"
    ELSE IF resp.status = 429 THEN "rate_limited"
    ELSE IF resp.body.json \in {"wrong_content_type", "malformed"} THEN "exception"
    ELSE IF resp.body.json \in {"error", "no_result"} THEN "break"
    ELSE IF resp.body.value = None THEN "break"
    ELSE IF ~TheValue(resp.body.value).meta THEN "exception"
    ELSE IF CreatedByPump(TheValue(resp.body.value).innerInstructions) THEN "genuine"
    ELSE "break"

\* response.status of an answer; None when session.post raised
StatusOf(resp) == IF resp.kind = "raise" THEN None ELSE Some(resp.status)

\* the request raised, or was answered with a status other than 200, a body that
\* is no JSON, or an error object
RequestFailed(resp) ==
    \/ resp.kind = "raise"
    \/ resp.status # 200
    \/ resp.body.json \in {"wrong_content_type", "malformed", "error"}

\* a page get_signatures_batch returned for the cursor b
ServedPage(b, signatures) == [before |-> b, signatures |-> signatures]

\* variant: the cursor is the first signature of the page
NextCursor_First(signatures) == Some(signatures[1].signature)

\* line 337: before = signatures[-1]['signature']
NextCursor(signatures) == Some(signatures[Len(signatures)].signature)

\* the binary decode of a metadata account
DecodeMetadata(account) == account.parsed

is_pump_authority(md) ==
    md # None /\ TheValue(md).update_authority = PUMP_UPDATE_AUTHORITY

\* variant: the provenance check runs for every address
PumpTrigger_Always(addr, md) == TRUE

\* is_pump_address or is_pump_authority
PumpTrigger(addr, md) == EndsWithPump(addr) \/ is_pump_authority(md)

\* lines 357-359
NoPump == [is_genuine |-> FALSE, first_transaction |-> None, transaction_count |-> None]

PumpResult(genuine, first, count) ==
    [is_genuine |-> genuine, first_transaction |-> first, transaction_count |-> Some(count)]

\* variant: the metadata is written into the record of any owner
UpdateDetails_AnyOwner(td, owner_program, md, pmp, addr) ==
    LET withMeta ==
            IF md # None
            THEN [td EXCEPT !.name = TheValue(md).name,
                            !.symbol = TheValue(md).symbol,
                            !.update_authority = Some(TheValue(md).update_authority)]
            ELSE td
    IN  IF PumpTrigger(addr, md)
        THEN [withMeta EXCEPT !.is_genuine_pump_fun_token = pmp.is_genuine,
                              !.first_transaction = pmp.first_transaction,
                              !.transaction_count = pmp.transaction_count]
        ELSE withMeta

\* variant: a token whose provenance check fails is failed by the review
UpdateDetails_ReviewsProvenance(td, owner_program, md, pmp, addr) ==
    LET withMeta ==
            IF owner_program = TOKEN_PROGRAM /\ md # None
            THEN [td EXCEPT !.name = TheValue(md).name,
                            !.symbol = TheValue(md).symbol,
                            !.update_authority = Some(TheValue(md).update_authority)]
            ELSE td
    IN  IF PumpTrigger(addr, md)
        THEN [withMeta EXCEPT !.is_genuine_pump_fun_token = pmp.is_genuine,
                              !.first_transaction = pmp.first_transaction,
                              !.transaction_count = pmp.transaction_count,
                              !.security_review = IF pmp.is_genuine THEN @ ELSE "FAILED"]
        ELSE withMeta

\* lines 400-412: the metadata update and the provenance update of a decoded record
UpdateDetails(td, owner_program, md, pmp, addr) ==
    LET withMeta ==
            IF owner_program = TOKEN_PROGRAM /\ md # None
            THEN [td EXCEPT !.name = TheValue(md).name,
                            !.symbol = TheValue(md).symbol,
                            !.update_authority = Some(TheValue(md).update_authority)]
            ELSE td
    IN  IF PumpTrigger(addr, md)
        THEN [withMeta EXCEPT !.is_genuine_pump_fun_token = pmp.is_genuine,
                              !.first_transaction = pmp.first_transaction,
                              !.transaction_count = pmp.transaction_count]
        ELSE withMeta

\* variant: the rate-limit branch waits like the exception branch
ExponentialBackoff_Linear(attempt) == RETRY_DELAY * (attempt + 1)

\* wait_time of the rate-limit branch, lines 79 and 381
ExponentialBackoff(attempt) == RETRY_DELAY * Pow2(attempt)

\* variant: the exception branch waits a fixed RETRY_DELAY
LinearBackoff_Fixed(attempt) == RETRY_DELAY

\* wait of the exception branch, lines 145 and 418
LinearBackoff(attempt) == RETRY_DELAY * (attempt + 1)

\* variant: the last pass of the loop retries too
MayRetry_OffByOne(attempt) == attempt < MAX_RETRIES

\* retry < MAX_RETRIES - 1
MayRetry(attempt) == attempt < MAX_RETRIES - 1

\* retry_count += 1; min(2 * 1.5 ** retry_count, 10) stays 10 from RetryCountCap on
BumpRetryCount(n) == Min(n + 1, RetryCountCap)

vars ==
    <<pc, address, account_data, result, retry, metadata, pump, m_retry, before,
      total_signatures, first_tx_sig, retry_count, sig_retry_count, history, outcomes,
      sleeps, last_status, walk, token_addresses, semaphore, tasks, completed, gathered,
      decoded_data, layout, session_state, report>>

lookupVars == <<retry, metadata, pump, outcomes, sleeps, last_status, account_data, result>>

batchVars == <<token_addresses, semaphore, tasks, completed, gathered>>

decodeVars == <<decoded_data, layout>>

appVars == <<session_state, report>>

verifyVars == <<before, total_signatures, first_tx_sig, retry_count, sig_retry_count>>

\* ------------------------------------------------- get_token_details_async

\* no request of the provenance walk has been answered in this pass
NoWalk == [pages |-> << >>, faulted |-> FALSE, tx |-> None]

\* no metadata buffer is being decoded on its own
NoBuffer ==
    /\ decoded_data = << >>
    /\ layout = None

\* the page as app.py lines 13-20 set it up, no analysis requested yet
NoSession ==
    /\ session_state = [analysis_results |-> None, batch_results |-> None,
                        mitigation_text |-> "", mitigation_approved |-> FALSE]
    /\ report = None

\* no batch is running
NoBatch ==
    /\ token_addresses = << >>
    /\ semaphore = CONCURRENT_LIMIT
    /\ tasks = << >>
    /\ completed = << >>
    /\ gathered = None

Init ==
    /\ pc = "get_metadata"
    /\ address \in Addresses
    /\ history \in 0..MaxHistory
    /\ account_data = None
    /\ result = Pending
    /\ retry = 0
    /\ metadata = None
    /\ pump = NoPump
    /\ m_retry = 0
    /\ before = None
    /\ total_signatures = << >>
    /\ first_tx_sig = None
    /\ retry_count = 0
    /\ sig_retry_count = 0
    /\ outcomes = << >>
    /\ sleeps = << >>
    /\ last_status = None
    /\ walk = NoWalk
    /\ NoBuffer
    /\ NoSession
    /\ NoBatch

VerifyLocalsReset ==
    /\ before' = None
    /\ total_signatures' = << >>
    /\ first_tx_sig' = None
    /\ retry_count' = 0
    /\ sig_retry_count' = 0

\* verify_pump_token returns (genuine, first, count) to get_token_details_async
VerifyReturns(genuine, first, count) ==
    /\ pump' = PumpResult(genuine, first, count)
    /\ pc' = "get_account_info"
    /\ VerifyLocalsReset
    /\ m_retry' = 0
    /\ UNCHANGED <<batchVars, decodeVars, appVars, address, history, retry, metadata, outcomes, sleeps, last_status,
                   account_data, result>>

\* get_metadata returns md to its caller: get_token_details_async (line 352) or
\* verify_pump_token (line 257)
MetadataReturns(md) ==
    IF pc = "get_metadata"
    THEN /\ metadata' = md
         /\ pc' = IF PumpTrigger(address, md) THEN "verify_get_metadata" ELSE "get_account_info"
         /\ m_retry' = 0
         /\ UNCHANGED <<batchVars, decodeVars, appVars, address, history, retry, pump, outcomes, sleeps, last_status,
                        walk, account_data, result>>
         /\ UNCHANGED verifyVars
    ELSE IF PumpTrigger(address, md)
    THEN /\ pc' = "get_signatures_batch"
         /\ m_retry' = 0
         /\ UNCHANGED <<batchVars, decodeVars, appVars, address, history, walk>>
         /\ UNCHANGED lookupVars
         /\ UNCHANGED verifyVars
    ELSE /\ VerifyReturns(FALSE, None, 0)
         /\ UNCHANGED walk

InMetadata == pc \in {"get_metadata", "verify_get_metadata"}

\* get_metadata, one pass of the loop: the metadata address cannot be derived
MetadataUnderivable ==
    /\ InMetadata
    /\ ~IsValidPubkey(address)
    /\ MetadataReturns(None)

\* get_metadata, one pass of the loop: HTTP 429, or an exception, with retries left
MetadataRetry ==
    /\ InMetadata
    /\ IsValidPubkey(address)
    /\ MayRetry(m_retry)
    /\ \E resp \in MetadataResponses :
          MetadataOutcome(resp) \in {"rate_limited", "exception"}
    /\ m_retry' = m_retry + 1
    /\ UNCHANGED <<batchVars, decodeVars, appVars, pc, address, history, walk>>
    /\ UNCHANGED lookupVars
    /\ UNCHANGED verifyVars

\* variant: a fetch that ends without metadata ends the lookup with an error
MetadataUnavailable_Fails ==
    /\ InMetadata
    /\ IsValidPubkey(address)
    /\ \E resp \in MetadataResponses :
          \/ MetadataOutcome(resp) \in {"rate_limited", "exception"} /\ ~MayRetry(m_retry)
          \/ MetadataOutcome(resp) = "none"
    /\ result' = ReturnError("Metadata error: ", None)
    /\ pc' = "done"
    /\ UNCHANGED <<batchVars, decodeVars, appVars, verifyVars, address, history, retry, metadata, pump,
                   m_retry, outcomes, sleeps, last_status, walk, account_data>>

\* get_metadata, one pass of the loop: a response or an exception that ends the
\* fetch without metadata
MetadataUnavailable ==
    /\ InMetadata
    /\ IsValidPubkey(address)
    /\ \E resp \in MetadataResponses :
          \/ MetadataOutcome(resp) \in {"rate_limited", "exception"} /\ ~MayRetry(m_retry)
          \/ MetadataOutcome(resp) = "none"
    /\ MetadataReturns(None)

\* get_metadata, one pass of the loop: the account is returned and decoded
MetadataDecoded ==
    /\ InMetadata
    /\ IsValidPubkey(address)
    /\ \E resp \in MetadataResponses :
          /\ MetadataOutcome(resp) = "account"
          /\ MetadataReturns(DecodeMetadata(TheValue(resp.body.value)))

\* get_signatures_batch, one pass of the loop: rate limited or an exception
SignaturesRetry ==
    /\ pc = "get_signatures_batch"
    /\ \E resp \in SignatureResponses :
          SignatureOutcome(resp) \in {"rate_limited", "exception"}
    /\ sig_retry_count' = BumpRetryCount(sig_retry_count)
    /\ pc' = "signatures_backoff"
    /\ walk' = [walk EXCEPT !.faulted = TRUE]
    /\ UNCHANGED <<batchVars, decodeVars, appVars, address, history, m_retry, before, total_signatures, first_tx_sig,
                   retry_count>>
    /\ UNCHANGED lookupVars

\* get_signatures_batch: the sleep of lines 235 and 245 is over, the loop goes on
SignaturesBackoffOver ==
    /\ pc = "signatures_backoff"
    /\ pc' = "get_signatures_batch"
    /\ UNCHANGED <<batchVars, decodeVars, appVars, address, history, m_retry, walk>>
    /\ UNCHANGED lookupVars
    /\ UNCHANGED verifyVars

\* get_signatures_batch returns no signatures (an RPC error, a null result or an
\* empty page): verify_pump_token leaves its loop at line 276
SignaturesEmpty ==
    /\ pc = "get_signatures_batch"
    /\ \E resp \in SignatureResponses :
          /\ \/ SignatureOutcome(resp) = "empty"
             \/ SignatureOutcome(resp) = "page" /\ SignaturePage(before) = << >>
          /\ walk' = IF RequestFailed(resp)
                     THEN [walk EXCEPT !.faulted = TRUE]
                     ELSE [walk EXCEPT !.pages = Append(@, ServedPage(before, << >>))]
    /\ VerifyReturns(FALSE, first_tx_sig, Len(total_signatures))

\* a page whose entries lack the 'signature' key: KeyError at line 283 or 337,
\* caught at line 343
SignaturesMalformed ==
    /\ pc = "get_signatures_batch"
    /\ \E resp \in SignatureResponses : SignatureOutcome(resp) = "malformed_page"
    /\ walk' = [walk EXCEPT !.faulted = TRUE]
    /\ VerifyReturns(FALSE, None, 0)

\* a full page: remember the cursor, sleep 2 and fetch the next page
SignaturesFullPage ==
    /\ pc = "get_signatures_batch"
    /\ \E resp \in SignatureResponses : SignatureOutcome(resp) = "page"
    /\ LET signatures == SignaturePage(before)
       IN  /\ Len(signatures) >= BATCH_SIZE
           /\ total_signatures' = total_signatures \o signatures
           /\ before' = NextCursor(signatures)
           /\ walk' = [walk EXCEPT !.pages = Append(@, ServedPage(before, signatures))]
    /\ sig_retry_count' = 0
    /\ UNCHANGED <<batchVars, decodeVars, appVars, pc, address, history, m_retry, first_tx_sig, retry_count>>
    /\ UNCHANGED lookupVars

\* a short page: its last signature is the genesis candidate
SignaturesLastPage ==
    /\ pc = "get_signatures_batch"
    /\ \E resp \in SignatureResponses : SignatureOutcome(resp) = "page"
    /\ LET signatures == SignaturePage(before)
       IN  /\ signatures # << >>
           /\ Len(signatures) < BATCH_SIZE
           /\ total_signatures' = total_signatures \o signatures
           /\ first_tx_sig' = Some(signatures[Len(signatures)].signature)
           /\ walk' = [walk EXCEPT !.pages = Append(@, ServedPage(before, signatures))]
    /\ pc' = "get_transaction"
    /\ sig_retry_count' = 0
    /\ UNCHANGED <<batchVars, decodeVars, appVars, address, history, m_retry, before, retry_count>>
    /\ UNCHANGED lookupVars

\* verify_pump_token, one pass of the getTransaction loop: HTTP 429 or an exception
TransactionRetry ==
    /\ pc = "get_transaction"
    /\ \E resp \in TransactionResponses :
          TransactionOutcome(resp) \in {"rate_limited", "exception"}
    /\ retry_count' = BumpRetryCount(retry_count)
    /\ pc' = "transaction_backoff"
    /\ walk' = [walk EXCEPT !.faulted = TRUE]
    /\ UNCHANGED <<batchVars, decodeVars, appVars, address, history, m_retry, before, total_signatures, first_tx_sig,
                   sig_retry_count>>
    /\ UNCHANGED lookupVars

\* verify_pump_token: the sleep of lines 308 and 333 is over, the loop goes on
TransactionBackoffOver ==
    /\ pc = "transaction_backoff"
    /\ pc' = "get_transaction"
    /\ UNCHANGED <<batchVars, decodeVars, appVars, address, history, m_retry, walk>>
    /\ UNCHANGED lookupVars
    /\ UNCHANGED verifyVars

\* variant: the genuine result does not carry the signature
TransactionGenuine_NoSignature ==
    /\ pc = "get_transaction"
    /\ \E resp \in TransactionResponses :
          /\ TransactionOutcome(resp) = "genuine"
          /\ walk' = [walk EXCEPT !.tx = Some(resp)]
    /\ VerifyReturns(TRUE, None, Len(total_signatures))

\* the genesis transaction has an inner createAccount owned by the launch program
TransactionGenuine ==
    /\ pc = "get_transaction"
    /\ \E resp \in TransactionResponses :
          /\ TransactionOutcome(resp) = "genuine"
          /\ walk' = [walk EXCEPT !.tx = Some(resp)]
    /\ VerifyReturns(TRUE, first_tx_sig, Len(total_signatures))

\* an RPC error, no result, or no such instruction
TransactionNotGenuine ==
    /\ pc = "get_transaction"
    /\ \E resp \in TransactionResponses :
          /\ TransactionOutcome(resp) = "break"
          /\ walk' = [walk EXCEPT !.tx = Some(resp),
                                  !.faulted = @ \/ RequestFailed(resp)]
    /\ VerifyReturns(FALSE, first_tx_sig, Len(total_signatures))

\* get_token_details_async returns r after the answer resp
LookupReturns(r, outcome, resp) ==
    /\ result' = r
    /\ pc' = "done"
    /\ outcomes' = Append(outcomes, outcome)
    /\ last_status' = StatusOf(resp)
    /\ walk' = NoWalk
    /\ UNCHANGED <<batchVars, decodeVars, appVars, address, history, retry, metadata, pump, m_retry, sleeps>>
    /\ UNCHANGED verifyVars

\* continue after the answer resp: the next pass of the for loop starts at line 350
LookupContinues(outcome, wait_time, resp) ==
    /\ retry' = retry + 1
    /\ pc' = "get_metadata"
    /\ metadata' = None
    /\ pump' = NoPump
    /\ outcomes' = Append(outcomes, outcome)
    /\ sleeps' = Append(sleeps, wait_time)
    /\ last_status' = StatusOf(resp)
    /\ walk' = NoWalk
    /\ UNCHANGED <<batchVars, decodeVars, appVars, address, history, m_retry, account_data, result>>
    /\ UNCHANGED verifyVars

\* HTTP 429 from the account-info call
AccountInfoRateLimited ==
    /\ pc = "get_account_info"
    /\ \E resp \in PrimaryResponses :
          /\ PrimaryOutcome(resp) = "rate_limited"
          /\ IF MayRetry(retry)
             THEN LookupContinues("rate_limited", ExponentialBackoff(retry), resp)
             ELSE /\ LookupReturns(ReturnError("Rate limit exceeded", None), "rate_limited",
                                   resp)
                  /\ UNCHANGED account_data

\* variant: a network failure is retried whatever the attempt
AccountInfoClientError_AlwaysRetried ==
    /\ pc = "get_account_info"
    /\ \E resp \in PrimaryResponses :
          /\ PrimaryOutcome(resp) = "client_error"
          /\ LookupContinues("client_error", LinearBackoff(retry), resp)

\* aiohttp.ClientError from the account-info call
AccountInfoClientError ==
    /\ pc = "get_account_info"
    /\ \E resp \in PrimaryResponses :
          /\ PrimaryOutcome(resp) = "client_error"
          /\ IF MayRetry(retry)
             THEN LookupContinues("client_error", LinearBackoff(retry), resp)
             ELSE /\ LookupReturns(ReturnError("Network error: ", Some("ClientError")),
                                   "client_error", resp)
                  /\ UNCHANGED account_data

\* any other exception: a timeout, an undecodable body, a null account value
AccountInfoUnexpected ==
    /\ pc = "get_account_info"
    /\ \E resp \in PrimaryResponses :
          /\ PrimaryOutcome(resp) = "unexpected"
          /\ LookupReturns(ReturnError("Unexpected error: ", None),
                           IF resp.kind = "raise" THEN "timeout" ELSE "unexpected", resp)
    /\ UNCHANGED account_data

\* variant: an error object is answered like a rate limit, with a backoff and
\* another pass
AccountInfoRpcError_Retried ==
    /\ pc = "get_account_info"
    /\ \E resp \in PrimaryResponses :
          /\ PrimaryOutcome(resp) = "rpc_error"
          /\ IF MayRetry(retry)
             THEN LookupContinues(IF resp.body.code = 429 THEN "rpc_error_429" ELSE "rpc_error",
                                  ExponentialBackoff(retry), resp)
             ELSE /\ LookupReturns(ReturnError("RPC error: ", Some(resp.body.code)),
                                   IF resp.body.code = 429 THEN "rpc_error_429"
                                   ELSE "rpc_error", resp)
                  /\ UNCHANGED account_data

\* the body carries an error object
AccountInfoRpcError ==
    /\ pc = "get_account_info"
    /\ \E resp \in PrimaryResponses :
          /\ PrimaryOutcome(resp) = "rpc_error"
          /\ LookupReturns(ReturnError("RPC error: ", Some(resp.body.code)),
                           IF resp.body.code = 429 THEN "rpc_error_429" ELSE "rpc_error", resp)
    /\ UNCHANGED account_data

\* the body carries no result
AccountInfoNoData ==
    /\ pc = "get_account_info"
    /\ \E resp \in PrimaryResponses :
          /\ PrimaryOutcome(resp) = "no_data"
          /\ LookupReturns(ReturnError("No data returned", None), "no_data", resp)
    /\ UNCHANGED account_data

\* the account is returned: decode, classify, update with metadata and provenance
AccountInfoDecoded ==
    /\ pc = "get_account_info"
    /\ \E resp \in PrimaryResponses :
          /\ PrimaryOutcome(resp) = "value"
          /\ account_data' = resp.body.value
          /\ LET decoded == process_token_data(TheValue(resp.body.value), address)
             IN  LookupReturns(
                     ReturnDetails(<< UpdateDetails(decoded[1], decoded[2], metadata, pump,
                                                    address),
                                      decoded[2] >>),
                     "value", resp)

Next ==
    \/ MetadataUnderivable
    \/ MetadataRetry
    \/ MetadataUnavailable
    \/ MetadataDecoded
    \/ SignaturesRetry
    \/ SignaturesBackoffOver
    \/ SignaturesEmpty
    \/ SignaturesMalformed
    \/ SignaturesFullPage
    \/ SignaturesLastPage
    \/ TransactionRetry
    \/ TransactionBackoffOver
    \/ TransactionGenuine
    \/ TransactionNotGenuine
    \/ AccountInfoRateLimited
    \/ AccountInfoClientError
    \/ AccountInfoUnexpected
    \/ AccountInfoRpcError
    \/ AccountInfoNoData
    \/ AccountInfoDecoded

Spec == Init /\ [][Next]_vars

\* the lookup is the only task of the event loop: every request is answered or
\* raises, every sleep ends, so the task always takes its next step
LiveSpec == Init /\ [][Next]_vars /\ WF_vars(Next)


\* ------------------------------------------------- the classifier on its own

ClassifyInit ==
    /\ pc = "classify"
    /\ address \in {a \in Addresses : IsValidPubkey(a)}
    /\ account_data \in {Some(p) : p \in AccountPayloads(MaxExt)}
    /\ result = Pending
    /\ history = 0
    /\ retry = 0
    /\ metadata = None
    /\ pump = NoPump
    /\ m_retry = 0
    /\ before = None
    /\ total_signatures = << >>
    /\ first_tx_sig = None
    /\ retry_count = 0
    /\ sig_retry_count = 0
    /\ outcomes = << >>
    /\ sleeps = << >>
    /\ last_status = None
    /\ walk = NoWalk
    /\ NoBuffer
    /\ NoSession
    /\ NoBatch

\* a direct call process_token_data(account_data, token_address)
Classify ==
    /\ pc = "classify"
    /\ pc' = "done"
    /\ result' = ReturnDetails(process_token_data(TheValue(account_data), address))
    /\ UNCHANGED <<batchVars, decodeVars, appVars, address, account_data, history, retry, metadata, pump, m_retry,
                   outcomes, sleeps, last_status, walk>>
    /\ UNCHANGED verifyVars

ClassifyNext == Classify

SpecClassify == ClassifyInit /\ [][ClassifyNext]_vars

\* ------------------------------------------- process_tokens_concurrently
\*
\* Every process_single_token task runs its own get_token_details_async.  The
\* lookup of a task is followed through its account-info requests and backoff
\* sleeps; the upstream of a batch serves no metadata account and an empty
\* signature history, the cases with them are those of Spec.

soloVars == <<pc, address, history, m_retry, walk, decodeVars, appVars>>

\* the input lists of a batch, duplicates included
AddressLists == UNION {[1..n -> {a \in Addresses : IsValidPubkey(a)}] : n \in 0..MaxBatch}

\* account payloads served to the lookups of a batch
BatchPayloads ==
    {p \in AccountPayloads(0) :
        /\ p.owner \in {Some(TOKEN_PROGRAM), Some(SYSTEM_PROGRAM)}
        /\ p.freezeAuthority = None
        /\ p.name = None}

\* account-info answers served to the lookups of a batch
BatchResponses ==
    {RaisedBy(e) : e \in Exceptions}
        \cup {HttpResponse(429, WrongContentType),
              HttpResponse(200, ErrorBody(-32602)),
              HttpResponse(200, ResultBody(None))}
        \cup {HttpResponse(200, ResultBody(Some(p))) : p \in BatchPayloads}

\* a coroutine process_single_token(addr, idx) handed to asyncio.gather
NewTask == [pc |-> "acquire", retry |-> 0, posts |-> 0, details |-> None, record |-> None]

\* what get_token_details_async returns on the answer resp when it does not go
\* for another pass (lines 385-424)
LookupValue(resp, addr) ==
    LET outcome == PrimaryOutcome(resp)
    IN  IF outcome = "rate_limited" THEN ReturnError("Rate limit exceeded", None)
        ELSE IF outcome = "client_error"
        THEN ReturnError("Network error: ", Some("ClientError"))
        ELSE IF outcome = "unexpected" THEN ReturnError("Unexpected error: ", None)
        ELSE IF outcome = "rpc_error" THEN ReturnError("RPC error: ", Some(resp.body.code))
        ELSE IF outcome = "no_data" THEN ReturnError("No data returned", None)
        ELSE LET decoded == process_token_data(TheValue(resp.body.value), addr)
             IN  ReturnDetails(<< UpdateDetails(decoded[1], decoded[2], None,
                                                PumpResult(FALSE, None, 0), addr),
                                  decoded[2] >>)

\* variant: a failed lookup is reported as a success
process_single_token_ErrorAsSuccess(addr, r) ==
    IF r.kind = "TokenDetails"
    THEN to_dict(TheValue(r.details)) @@ [address |-> addr, status |-> "success"]
    ELSE [address |-> addr, status |-> "success", error |-> TheValue(r.error)]

\* lines 524-534: the record of one address; the keys of to_dict() are written
\* after 'address' and 'status'
process_single_token(addr, r) ==
    IF r.kind = "TokenDetails"
    THEN to_dict(TheValue(r.details)) @@ [address |-> addr, status |-> "success"]
    ELSE [address |-> addr, status |-> "error", error |-> TheValue(r.error)]

\* variant: the semaphore admits every task
SemaphoreFree_Always == TRUE

\* asyncio.Semaphore: acquire() goes through while the counter is positive
SemaphoreFree == semaphore > 0

\* variant: the records in the order the tasks returned
GatherResults_AsCompleted == [k \in 1..Len(completed) |-> TheValue(tasks[completed[k]].record)]

\* asyncio.gather: the results in the order of the awaitables
GatherResults == [i \in 1..Len(tasks) |-> TheValue(tasks[i].record)]

BatchInit ==
    /\ token_addresses \in AddressLists
    /\ semaphore = CONCURRENT_LIMIT
    /\ tasks = [i \in 1..Len(token_addresses) |-> NewTask]
    /\ completed = << >>
    /\ gathered = None
    /\ pc = "gather"
    /\ address = << >>
    /\ history = 0
    /\ account_data = None
    /\ result = Pending
    /\ retry = 0
    /\ metadata = None
    /\ pump = NoPump
    /\ m_retry = 0
    /\ before = None
    /\ total_signatures = << >>
    /\ first_tx_sig = None
    /\ retry_count = 0
    /\ sig_retry_count = 0
    /\ outcomes = << >>
    /\ sleeps = << >>
    /\ last_status = None
    /\ walk = NoWalk
    /\ NoBuffer
    /\ NoSession

\* 'async with semaphore' of task i is entered
SemaphoreAcquire ==
    \E i \in 1..Len(tasks) :
        /\ tasks[i].pc = "acquire"
        /\ SemaphoreFree
        /\ semaphore' = semaphore - 1
        /\ tasks' = [tasks EXCEPT ![i].pc = "admitted"]
        /\ UNCHANGED <<token_addresses, completed, gathered>>
        /\ UNCHANGED <<soloVars, lookupVars, verifyVars>>

\* variant: the sleep is time.sleep, which keeps the event loop: no request is
\* posted while a task sleeps
TaskPosts_BlockingSleep ==
    \E i \in 1..Len(tasks) :
        /\ tasks[i].pc = "admitted"
        /\ \A j \in 1..Len(tasks) : tasks[j].pc # "backoff"
        /\ tasks' = [tasks EXCEPT ![i].pc = "awaiting", ![i].posts = @ + 1]
        /\ UNCHANGED <<token_addresses, semaphore, completed, gathered>>
        /\ UNCHANGED <<soloVars, lookupVars, verifyVars>>

\* the lookup of task i posts its account-info request and is suspended
TaskPosts ==
    \E i \in 1..Len(tasks) :
        /\ tasks[i].pc = "admitted"
        /\ tasks' = [tasks EXCEPT ![i].pc = "awaiting", ![i].posts = @ + 1]
        /\ UNCHANGED <<token_addresses, semaphore, completed, gathered>>
        /\ UNCHANGED <<soloVars, lookupVars, verifyVars>>

\* the request of task i is answered with a rate limit or a network failure and
\* retries are left: the lookup sleeps
TaskBacksOff ==
    \E i \in 1..Len(tasks) :
        /\ tasks[i].pc = "awaiting"
        /\ MayRetry(tasks[i].retry)
        /\ \E resp \in BatchResponses : PrimaryOutcome(resp) \in {"rate_limited", "client_error"}
        /\ tasks' = [tasks EXCEPT ![i].pc = "backoff", ![i].retry = @ + 1]
        /\ UNCHANGED <<token_addresses, semaphore, completed, gathered>>
        /\ UNCHANGED <<soloVars, lookupVars, verifyVars>>

\* the sleep of task i is over: the next pass of its lookup
TaskBackoffOver ==
    \E i \in 1..Len(tasks) :
        /\ tasks[i].pc = "backoff"
        /\ tasks' = [tasks EXCEPT ![i].pc = "admitted"]
        /\ UNCHANGED <<token_addresses, semaphore, completed, gathered>>
        /\ UNCHANGED <<soloVars, lookupVars, verifyVars>>

\* variant: the permit is given back only by a task whose lookup returned a
\* record
TaskReturns_ErrorKeepsPermit ==
    \E i \in 1..Len(tasks) :
        /\ tasks[i].pc = "awaiting"
        /\ \E resp \in BatchResponses :
              /\ PrimaryOutcome(resp) \in {"rate_limited", "client_error"} => ~MayRetry(tasks[i].retry)
              /\ LET r == LookupValue(resp, token_addresses[i])
                 IN  /\ tasks' = [tasks EXCEPT
                                     ![i].pc = "done",
                                     ![i].details = Some(r),
                                     ![i].record = Some(process_single_token(token_addresses[i], r))]
                     /\ semaphore' = IF r.kind = "TokenDetails" THEN semaphore + 1 ELSE semaphore
        /\ completed' = Append(completed, i)
        /\ UNCHANGED <<token_addresses, gathered>>
        /\ UNCHANGED <<soloVars, lookupVars, verifyVars>>

\* the lookup of task i returns, process_single_token builds the record and
\* leaves 'async with semaphore'
TaskReturns ==
    \E i \in 1..Len(tasks) :
        /\ tasks[i].pc = "awaiting"
        /\ \E resp \in BatchResponses :
              /\ PrimaryOutcome(resp) \in {"rate_limited", "client_error"} => ~MayRetry(tasks[i].retry)
              /\ LET r == LookupValue(resp, token_addresses[i])
                 IN  tasks' = [tasks EXCEPT
                                  ![i].pc = "done",
                                  ![i].details = Some(r),
                                  ![i].record = Some(process_single_token(token_addresses[i], r))]
        /\ semaphore' = semaphore + 1
        /\ completed' = Append(completed, i)
        /\ UNCHANGED <<token_addresses, gathered>>
        /\ UNCHANGED <<soloVars, lookupVars, verifyVars>>

\* every task has returned: asyncio.gather hands the list to the caller
GatherReturns ==
    /\ gathered = None
    /\ \A i \in 1..Len(tasks) : tasks[i].pc = "done"
    /\ gathered' = Some(GatherResults)
    /\ UNCHANGED <<token_addresses, semaphore, tasks, completed>>
    /\ UNCHANGED <<soloVars, lookupVars, verifyVars>>

BatchNext ==
    \/ SemaphoreAcquire
    \/ TaskPosts
    \/ TaskBacksOff
    \/ TaskBackoffOver
    \/ TaskReturns
    \/ GatherReturns

SpecBatch == BatchInit /\ [][BatchNext]_vars

\* the event loop runs a task that can run
LiveSpecBatch == SpecBatch /\ WF_vars(BatchNext)

\* the batch with the limit of the semaphore set to 2
BatchInitWide ==
    /\ token_addresses \in AddressLists
    /\ semaphore = CONCURRENT_LIMIT + 1
    /\ tasks = [i \in 1..Len(token_addresses) |-> NewTask]
    /\ completed = << >>
    /\ gathered = None
    /\ pc = "gather"
    /\ address = << >>
    /\ history = 0
    /\ account_data = None
    /\ result = Pending
    /\ retry = 0
    /\ metadata = None
    /\ pump = NoPump
    /\ m_retry = 0
    /\ before = None
    /\ total_signatures = << >>
    /\ first_tx_sig = None
    /\ retry_count = 0
    /\ sig_retry_count = 0
    /\ outcomes = << >>
    /\ sleeps = << >>
    /\ last_status = None
    /\ walk = NoWalk
    /\ NoBuffer
    /\ NoSession

SpecBatchWide == BatchInitWide /\ [][BatchNext]_vars

\* ----------------------------------------- the metadata decode on its own

DecodeInit ==
    /\ \/ \E l \in Layouts :
            /\ layout = Some(l)
            /\ decoded_data = Slice(BuildBuffer(l), 0, l.cut)
       \/ /\ layout = None
          /\ decoded_data = BadUtf8Buffer
    /\ pc = "decode"
    /\ address = << >>
    /\ history = 0
    /\ account_data = None
    /\ result = Pending
    /\ retry = 0
    /\ metadata = None
    /\ pump = NoPump
    /\ m_retry = 0
    /\ before = None
    /\ total_signatures = << >>
    /\ first_tx_sig = None
    /\ retry_count = 0
    /\ sig_retry_count = 0
    /\ outcomes = << >>
    /\ sleeps = << >>
    /\ last_status = None
    /\ walk = NoWalk
    /\ NoBatch
    /\ NoSession

\* lines 94-141 of get_metadata on the bytes of one account
DecodeBuffer ==
    /\ pc = "decode"
    /\ metadata' = DecodeBytes(decoded_data)
    /\ pc' = "decoded"
    /\ UNCHANGED <<batchVars, decodeVars, appVars, verifyVars, address, history, account_data,
                   result, retry, pump, m_retry, outcomes, sleeps, last_status, walk>>

SpecDecode == DecodeInit /\ [][DecodeBuffer]_vars

\* ------------------------------------------------------ app.py, single token

\* the message of app.py line 97
NotAValidTokenMessage ==
    "The provided address is not a valid SPL token. Please check the address and try again."

\* bool(x) of a str or None held as an Optional: None and '' are falsy
Truthy(opt) == opt # None /\ TheValue(opt) # ""

\* an exception leaves the coroutine
Raises(exc) == [raised |-> Some(exc), status |-> None, error |-> None, data |-> None]

\* {'status': 'error', 'error': message}
ErrorReport(message) ==
    [raised |-> None, status |-> Some("error"), error |-> Some(message), data |-> None]

\* {'status': 'success', 'data': data}
SuccessReport(data) ==
    [raised |-> None, status |-> Some("success"), error |-> None, data |-> Some(data)]

\* get_token, app.py lines 90-100, on the pair r that get_token_details_async
\* returned: "details, error = ..." binds error to the second element of the
\* pair, which is owner_program after a decode and None after an error string;
\* a str has no attribute owner_program
get_token(r) ==
    IF Truthy(r.owner_program) THEN ErrorReport(TheValue(r.owner_program))
    ELSE IF r.kind = "str" THEN Raises("AttributeError")
    ELSE LET details == TheValue(r.details)
         IN  IF \/ details.owner_program = <<"System Program", "">>
                \/ details.owner_program[2] = "Not a token program"
             THEN ErrorReport(NotAValidTokenMessage)
             ELSE SuccessReport(to_dict(details))

\* the "Analyze Token" button, app.py lines 88-123: asyncio.run(get_token())
\* has awaited the lookup, whose return value is in result; a success is stored
\* in the session, anything else is shown as an error box
AnalyzeToken ==
    /\ pc = "done"
    /\ address # << >>
    /\ LET shown == get_token(result)
       IN  /\ report' = Some(shown)
           /\ session_state' =
                  IF shown.status = Some("success")
                  THEN [session_state EXCEPT !.analysis_results = shown.data,
                                             !.mitigation_approved = FALSE]
                  ELSE session_state
    /\ pc' = "shown"
    /\ UNCHANGED <<batchVars, decodeVars, lookupVars, verifyVars, address, history,
                   m_retry, walk>>

AppNext ==
    \/ Next
    \/ AnalyzeToken

\* the page with one address typed in and the button pressed
SpecApp == Init /\ [][AppNext]_vars

\* ------------------------------------------------------------------ claims

Returned == pc = "done"

ReturnedDetails == Returned /\ result.kind = "TokenDetails"

Payload == TheValue(account_data)

Details == TheValue(result.details)

\* the state map of the last entry of info["extensions"] with this type tag
RECURSIVE LastState(_, _)
LastState(exts, tag) ==
    IF exts = << >> THEN EmptyState
    ELSE IF exts[Len(exts)].extension = tag THEN exts[Len(exts)].state
    ELSE LastState(SubSeq(exts, 1, Len(exts) - 1), tag)

\* the five risk conditions of the policy, read from the account payload
RiskFlags(p) ==
    << p.freezeAuthority # None,
       LastState(p.extensions, "permanentDelegate").delegate # None,
       LastState(p.extensions, "confidentialTransferMint").authority # None,
       LastState(p.extensions, "transferHook").authority # None,
       LET fee == LastState(p.extensions, "transferFeeConfig").fee
       IN  fee # None /\ TheValue(fee) # 0 >>

AnyRisk(p) == \E i \in 1..5 : RiskFlags(p)[i]

IsToken2022 == ReturnedDetails /\ Payload.owner = Some(TOKEN_2022_PROGRAM)

IsBaseToken == ReturnedDetails /\ Payload.owner = Some(TOKEN_PROGRAM)

IsNotAToken == ReturnedDetails /\ Payload.owner \notin {Some(TOKEN_PROGRAM), Some(TOKEN_2022_PROGRAM)}

\* C1: for an account owned by the Token-2022 program, process_token_data sets
\* security_review to FAILED exactly when one of the five risk conditions holds
\* (freeze authority, permanent delegate, confidential transfer authority, transfer
\* hook authority present, or a transfer fee present and nonzero), else to PASSED;
\* the decoded fields carry the flags the payload states.
C1_Token2022Verdict ==
    IsToken2022 =>
        /\ Details.security_review = (IF AnyRisk(Payload) THEN "FAILED" ELSE "PASSED")
        /\ LET ext == TheValue(Details.extensions)
           IN  RiskFlags(Payload) =
                   << Details.freeze_authority # None,
                      ext.permanent_delegate # None,
                      ext.confidential_transfers_authority # None,
                      ext.transfer_hook_authority # None,
                      ext.transfer_fee \notin {None, Some(0)} >>

\* C1 witness: a Token-2022 account whose only extension state is a zero transfer
\* fee passes, the boundary of the fifth flag
C1_Witness ==
    /\ IsToken2022
    /\ LastState(Payload.extensions, "transferFeeConfig").fee = Some(0)
    /\ ~AnyRisk(Payload)
    /\ Details.security_review = "PASSED"

\* C2: for an account owned by the base token program, security_review is PASSED
\* exactly when the payload has no freeze authority, and FAILED otherwise, whatever
\* the other fields of the payload are.
C2_BaseTokenVerdict ==
    IsBaseToken =>
        Details.security_review =
            (IF Payload.freezeAuthority = None THEN "PASSED" ELSE "FAILED")

\* C2 witness: a base token account with a freeze authority and risky extension
\* entries in its payload fails
C2_Witness ==
    /\ IsBaseToken
    /\ Payload.freezeAuthority # None
    /\ Payload.extensions # << >>
    /\ Details.security_review = "FAILED"

\* C3: for an account whose owner is neither token program (the system program,
\* another program, or no owner key), security_review is NOT_A_TOKEN whatever the
\* other fields of the payload are.
C3_NotATokenVerdict == IsNotAToken => Details.security_review = "NOT_A_TOKEN"

\* C3 witness: an account of another program with a freeze authority and extension
\* entries in its payload
C3_Witness ==
    /\ IsNotAToken
    /\ Payload.owner = Some(OTHER_PROGRAM)
    /\ Payload.freezeAuthority # None
    /\ AnyRisk(Payload)
    /\ Details.security_review = "NOT_A_TOKEN"

\* C4: every TokenDetails a lookup returns, after the primary decode, the metadata
\* update and the provenance update, has security_review in PASSED, FAILED,
\* NOT_A_TOKEN, and its to_dict mapping has the security_review key with that value.
C4_ReviewAlwaysSet ==
    ReturnedDetails =>
        /\ Details.security_review \in {"PASSED", "FAILED", "NOT_A_TOKEN"}
        /\ "security_review" \in DOMAIN to_dict(Details)
        /\ to_dict(Details).security_review = Details.security_review

\* C4 witness: a record that went through the metadata update and the provenance
\* update
C4_Witness ==
    /\ ReturnedDetails
    /\ Details.update_authority # None
    /\ Details.transaction_count # None
    /\ Details.first_transaction # None

AllOutcomes(kind) == \A i \in 1..Len(outcomes) : outcomes[i] = kind

\* C5: when every account-info request of the lookup is answered HTTP 429, the
\* lookup never issues more than MAX_RETRIES of them, and it returns only after
\* exactly MAX_RETRIES requests, with the rate-limit-exceeded error string.
C5_RateLimitExhaustion ==
    AllOutcomes("rate_limited") =>
        /\ Len(outcomes) <= MAX_RETRIES
        /\ Returned =>
              /\ Len(outcomes) = MAX_RETRIES
              /\ result = ReturnError("Rate limit exceeded", None)

\* C5 witness: the lookup has returned after nothing but rate-limited answers
C5_Witness == Returned /\ AllOutcomes("rate_limited")

RateLimitedThenValue ==
    /\ Len(outcomes) = MAX_RETRIES
    /\ \A i \in 1..(MAX_RETRIES - 1) : outcomes[i] = "rate_limited"
    /\ outcomes[MAX_RETRIES] = "value"

\* C6: when the account-info call is rate limited on the first MAX_RETRIES - 1
\* attempts and answered with the account on the last, the lookup returns a
\* TokenDetails, the backoff sleep after rate-limited attempt k is
\* RETRY_DELAY * 2^k, and the sleeps are strictly increasing.
C6_ExponentialBackoff ==
    (Returned /\ RateLimitedThenValue) =>
        /\ result.kind = "TokenDetails"
        /\ Len(sleeps) = MAX_RETRIES - 1
        /\ \A k \in 0..(MAX_RETRIES - 2) : sleeps[k + 1] = RETRY_DELAY * (2 ^ k)
        /\ \A i \in 1..(Len(sleeps) - 1) : sleeps[i] < sleeps[i + 1]

\* C6 witness: such a lookup has returned
C6_Witness == Returned /\ RateLimitedThenValue

\* C7: no RPC-wrapping operation retries indefinitely: whatever the upstream
\* answers, the account-info lookup, with its metadata fetch, signature-page
\* fetches and genesis-transaction fetch, issues a bounded number of requests
\* and returns.
C7_LookupReturns == <>Returned

\* C8: a network failure (aiohttp.ClientError) of the account-info call at attempt
\* k < MAX_RETRIES - 1 is followed by a sleep of RETRY_DELAY * (k + 1) and a retry;
\* when all MAX_RETRIES attempts end so, the lookup returns a network-error string
\* and no TokenDetails.
C8_NetworkFailureRetry ==
    /\ \A i \in 1..Len(outcomes) :
          (outcomes[i] = "client_error" /\ i < MAX_RETRIES) =>
              /\ i <= Len(sleeps)
              /\ sleeps[i] = RETRY_DELAY * i
              /\ (Returned => i < Len(outcomes))
    /\ (Returned /\ AllOutcomes("client_error")) =>
          /\ Len(outcomes) = MAX_RETRIES
          /\ result.kind = "str"
          /\ result.details = None
          /\ TheValue(result.error).text = "Network error: "

\* C8 witness: the lookup has returned after MAX_RETRIES network failures
C8_Witness == Returned /\ AllOutcomes("client_error") /\ Len(sleeps) = MAX_RETRIES - 1

\* C9: an account-info call that exceeds its per-call timeout is handled like a
\* network failure: before the retry ceiling it is followed by the linear backoff
\* sleep and a retry, and at the ceiling it is surfaced as a network error.
C9_TimeoutRetried ==
    \A i \in 1..Len(outcomes) :
        outcomes[i] = "timeout" =>
            IF i < MAX_RETRIES
            THEN i <= Len(sleeps) /\ sleeps[i] = RETRY_DELAY * i
            ELSE Returned => TheValue(result.error).text = "Network error: "

\* C10: a body with error.code == 429 is rate limiting like HTTP 429: the
\* account-info lookup follows it with the exponential backoff sleep and a retry
\* before the retry ceiling, and never surfaces it as an RPC error.
C10_ErrorCode429RateLimited ==
    /\ \A i \in 1..Len(outcomes) :
          outcomes[i] = "rpc_error_429" =>
              /\ i < MAX_RETRIES => (i <= Len(sleeps) /\ sleeps[i] = RETRY_DELAY * (2 ^ (i - 1)))
              /\ Returned => TheValue(result.error).text # "RPC error: "

\* C11: an account-info answer that carries an RPC error object (a protocol
\* error: HTTP status other than 429, error code other than 429) is not retried:
\* it is the last account-info request of the lookup, the lookup has returned, and
\* what it returned is no TokenDetails but the string "RPC error: " with the
\* upstream error formatted into it.
C11_RpcErrorNotRetried ==
    \A i \in 1..Len(outcomes) :
        outcomes[i] = "rpc_error" =>
            /\ i = Len(outcomes)
            /\ Returned
            /\ result.kind = "str"
            /\ result.details = None
            /\ TheValue(result.error).text = "RPC error: "
            /\ last_status = Some(200) => TheValue(result.error).detail = Some(-32602)
            /\ last_status = Some(500) => TheValue(result.error).detail = Some(-32603)

\* C11 witness: after two retried attempts the third answer carries an error
\* object and the lookup has returned it
C11_Witness ==
    /\ Returned
    /\ Len(outcomes) = 3
    /\ outcomes[3] = "rpc_error"
    /\ Len(sleeps) = 2
    /\ result = ReturnError("RPC error: ", Some(-32602))

\* C12: an account-info answer with an HTTP status other than 200 and 429 (a
\* server error) ends the lookup: it is not retried, and the lookup returns an
\* error string.
C12_ServerErrorNotRetried ==
    last_status \notin {None, Some(200), Some(429)} =>
        /\ Returned
        /\ result.kind = "str"

Batch == TheValue(gathered)

TaskDetails(i) == TheValue(tasks[i].details)

Admitted == {i \in 1..Len(tasks) : tasks[i].pc \in {"admitted", "awaiting", "backoff"}}

\* C13: the list process_tokens_concurrently returns has one record per input
\* address, and the record at position i is the one the task of position i
\* built for token_addresses[i], whatever the order in which the tasks were
\* admitted and returned, duplicates in the input included.
C13_PositionalResults ==
    gathered # None =>
        /\ Len(Batch) = Len(token_addresses)
        /\ \A i \in 1..Len(token_addresses) :
              /\ Batch[i].address = token_addresses[i]
              /\ Batch[i] = TheValue(tasks[i].record)
              /\ Batch[i].status = "success" <=> TaskDetails(i).kind = "TokenDetails"
              /\ Batch[i].status = "error" =>
                    Batch[i].error = TheValue(TaskDetails(i).error)
              /\ Batch[i].status = "success" =>
                    Batch[i].security_review = TheValue(TaskDetails(i).details).security_review

\* C13 witness: the same address twice, the second task returned first, and the
\* two lookups ended differently
C13_Witness ==
    /\ gathered # None
    /\ Len(token_addresses) = 2
    /\ token_addresses[1] = token_addresses[2]
    /\ completed = <<2, 1>>
    /\ Batch[1].status = "error"
    /\ Batch[2].status = "success"

C15_AdmissionGate ==
    /\ Cardinality(Admitted) <= CONCURRENT_LIMIT
    /\ semaphore = CONCURRENT_LIMIT - Cardinality(Admitted)
    /\ \A i \in 1..Len(tasks) : tasks[i].pc = "acquire" => tasks[i].posts = 0

\* C15 witness: one task sleeps in a backoff after its second request while the
\* other still waits at the semaphore
C15_Witness ==
    /\ Len(tasks) = 2
    /\ tasks[2].pc = "backoff"
    /\ tasks[2].posts = 2
    /\ tasks[1].pc = "acquire"
    /\ semaphore = 0

\* verify_pump_token has returned to the running pass, which has not yet had
\* its account-info answer
VerifyReturned == pc = "get_account_info" /\ pump.transaction_count # None

PageLen(k) == Len(walk.pages[k].signatures)

LastOf(page) == page.signatures[Len(page.signatures)].signature

\* the signatures of the pages served so far, in the order served
RECURSIVE Walked(_)
Walked(pages) ==
    IF pages = << >> THEN << >>
    ELSE Walked(SubSeq(pages, 1, Len(pages) - 1)) \o pages[Len(pages)].signatures

\* the last page served is non-empty and shorter than BATCH_SIZE
ReachedGenesis ==
    /\ walk.pages # << >>
    /\ PageLen(Len(walk.pages)) > 0
    /\ PageLen(Len(walk.pages)) < BATCH_SIZE

\* full pages only, then a short non-empty page
FullThenShort ==
    /\ ReachedGenesis
    /\ \A k \in 1..(Len(walk.pages) - 1) : PageLen(k) = BATCH_SIZE

\* C16: when the history is served as n full pages and then a non-empty page of
\* m < BATCH_SIZE signatures, with no failed request, the first page is asked
\* for with no cursor, every later page with the last signature of the page
\* before it, and verify_pump_token returns the count n * BATCH_SIZE + m and,
\* as first transaction, the last signature of the final page.
C16_PagedCount ==
    (~walk.faulted /\ FullThenShort) =>
        LET n == Len(walk.pages) - 1
        IN  /\ walk.pages[1].before = None
            /\ \A k \in 2..(n + 1) : walk.pages[k].before = Some(LastOf(walk.pages[k - 1]))
            /\ VerifyReturned =>
                  /\ pump.transaction_count = Some(n * BATCH_SIZE + PageLen(n + 1))
                  /\ pump.first_transaction = Some(LastOf(walk.pages[n + 1]))

\* C16 witness: two full pages and a short one were served and the walk returned
C16_Witness ==
    /\ VerifyReturned
    /\ ~walk.faulted
    /\ FullThenShort
    /\ Len(walk.pages) = 3
    /\ pump.transaction_count = Some(2 * BATCH_SIZE + 1)

\* C17: when the whole of a non-empty history has been served to the walk and no
\* request failed, the first transaction verify_pump_token returns is the oldest
\* signature of the history, also when the history is a multiple of BATCH_SIZE
\* long and the page after the last full page is empty.
C17_OldestSignature ==
    (VerifyReturned /\ ~walk.faulted /\ history > 0 /\ Len(Walked(walk.pages)) = history) =>
        pump.first_transaction =
            Some(Walked(walk.pages)[Len(Walked(walk.pages))].signature)

\* what the walk has accumulated as first transaction
AccumulatedFirst ==
    IF ReachedGenesis THEN Some(LastOf(walk.pages[Len(walk.pages)])) ELSE None

\* C18: once a request of the provenance walk has failed, the walk is over:
\* verify_pump_token has returned not genuine, with the count and the first
\* transaction accumulated up to the failure.
C18_ErrorAbortsWalk ==
    walk.faulted =>
        /\ pc = "get_account_info"
        /\ pump = PumpResult(FALSE, AccumulatedFirst, Len(Walked(walk.pages)))

\* the getTransaction answer that ended the walk is a result with its meta whose
\* inner instructions hold a parsed createAccount owned by the launch program
GenesisCreatedByLaunchProgram ==
    /\ walk.tx # None
    /\ LET resp == TheValue(walk.tx)
       IN  /\ resp.kind = "response"
           /\ resp.status = 200
           /\ resp.body.json = "result"
           /\ resp.body.value # None
           /\ TheValue(resp.body.value).meta
           /\ LET instructions == TheValue(resp.body.value).innerInstructions
              IN  \E i \in 1..Len(instructions) :
                      /\ instructions[i].parsed
                      /\ instructions[i].type = "createAccount"
                      /\ instructions[i].owner = "6EF8rrecthR5Dkzon8Nwu78hRvfCKubJ14M5uBEwF6P"

\* C19: verify_pump_token returns genuine exactly when the walk reached a short
\* non-empty page, the detail of its last signature was fetched, and one inner
\* instruction of it is a parsed createAccount whose owner is the launch program.
C19_GenuineIff ==
    VerifyReturned =>
        (pump.is_genuine <=> (ReachedGenesis /\ GenesisCreatedByLaunchProgram))

\* C19 witness: genuine, by the second of two createAccount instructions, after a
\* full page and a short page
C19_Witness ==
    /\ VerifyReturned
    /\ pump.is_genuine
    /\ Len(walk.pages) = 2
    /\ Len(TheValue(TheValue(walk.tx).body.value).innerInstructions) = 2
    /\ pump.first_transaction = Some(1)

\* a getSignaturesForAddress or getTransaction request of the running pass is
\* being made or has been answered
WalkRequested ==
    \/ pc \in {"get_signatures_batch", "signatures_backoff", "get_transaction",
               "transaction_backoff"}
    \/ walk # NoWalk

HasPumpSuffix ==
    /\ Len(address) >= 4
    /\ [i \in 1..4 |-> Lower(address[Len(address) - 4 + i])] = <<"p", "u", "m", "p">>

HasPumpAuthority ==
    /\ metadata # None
    /\ TheValue(metadata).update_authority = "TSLvdd1pWpHVjahSpsvCXUbgwsL3JAcvokwaKt1eokM"

\* C20: on every pass of a lookup, when the address does not end in 'pump' (in
\* any letter case) and the metadata decoded for the pass does not name the pump
\* update authority, no getSignaturesForAddress and no getTransaction request is
\* made.
C20_NoWalkWithoutTrigger ==
    (~HasPumpSuffix /\ ~HasPumpAuthority) => ~WalkRequested

\* C20 witness: the third pass of a lookup whose address has no suffix and whose
\* metadata names another authority is at its account-info request, no walk made
C20_Witness ==
    /\ pc = "get_account_info"
    /\ retry = 2
    /\ ~HasPumpSuffix
    /\ metadata # None
    /\ ~HasPumpAuthority
    /\ ~WalkRequested

\* ---- the metadata decode (SpecDecode)

\* the layout the buffer under decode was built from
BufferLayout == TheValue(layout)

Decoded == pc = "decoded"

\* every byte of the layout is in the buffer
WellFormedBuffer == layout # None /\ BufferLayout.cut = Len(BuildBuffer(BufferLayout))

\* the buffer stops before the last byte of its layout
TruncatedBuffer == layout # None /\ BufferLayout.cut < Len(BuildBuffer(BufferLayout))

\* the base58 text of the two authorities served, as solders prints them
KeyText(key) ==
    IF key = PumpAuthorityKey THEN "TSLvdd1pWpHVjahSpsvCXUbgwsL3JAcvokwaKt1eokM"
    ELSE "112QftUJC9yYkE7xr4ikuFmaHKhLCxkpK5RL1J2QqC2"

\* the declared length of a string field of the layout
DeclaredLength(t, pad) == Len(t.bytes) + pad

\* C21 as stated: the decode of a well-formed buffer returns the name and the
\* symbol without their trailing nulls and the base58 text of bytes 1..32 as the
\* update authority, whatever the declared lengths.
C21_WellFormedDecode ==
    Decoded /\ WellFormedBuffer
        => metadata = Some([ name |-> BufferLayout.name.text,
                             symbol |-> BufferLayout.symbol.text,
                             update_authority |-> KeyText(BufferLayout.authority) ])

\* C21, amended: the decode of a well-formed buffer returns the base58 text of
\* bytes 1..32 as the update authority and, for the name and for the symbol, the
\* string without its trailing nulls when the declared length is positive and
\* "N/A" when the declared length is 0.
C21_WellFormedDecodeOrSentinel ==
    Decoded /\ WellFormedBuffer
        => metadata =
             Some([ name |-> IF DeclaredLength(BufferLayout.name, BufferLayout.name_pad) > 0
                             THEN BufferLayout.name.text ELSE "N/A",
                    symbol |-> IF DeclaredLength(BufferLayout.symbol,
                                                 BufferLayout.symbol_pad) > 0
                               THEN BufferLayout.symbol.text ELSE "N/A",
                    update_authority |-> KeyText(BufferLayout.authority) ])

\* a padded name with a two-byte character and a padded symbol have been decoded
C21_Witness ==
    /\ Decoded
    /\ WellFormedBuffer
    /\ BufferLayout.name_pad > 0
    /\ BufferLayout.symbol_pad > 0
    /\ BufferLayout.authority = PumpAuthorityKey
    /\ metadata = Some([ name |-> "CU+233", symbol |-> "META",
                         update_authority |-> "TSLvdd1pWpHVjahSpsvCXUbgwsL3JAcvokwaKt1eokM" ])

\* C22: the decode of a truncated buffer (shorter than the fixed prefix, cut
\* inside a length field, or cut before the end of a declared length) gives
\* None, never a record.
C22_TruncatedIsNone == Decoded /\ TruncatedBuffer => metadata = None

\* ---- incomplete payloads and the metadata fetch (Spec)

\* the lookup returned on an account-info answer of status 200 that had a
\* result: an account, whole or with fields missing, or a null value
AnsweredWithResult ==
    /\ Returned
    /\ last_status = Some(200)
    /\ outcomes # << >>
    /\ outcomes[Len(outcomes)] \in {"value", "unexpected"}

\* C23: an account-info result that is incomplete (null account value, missing
\* name, symbol or freezeAuthority) never makes the lookup return an error
\* string: the lookup returns a record.
C23_IncompletePayloadNoError ==
    AnsweredWithResult => result.kind = "TokenDetails" /\ result.error = None

\* the record process_token_data makes of the payload, before the metadata and
\* the provenance updates
PrimaryDecode == process_token_data(Payload, address)[1]

ProvenanceComputed == HasPumpSuffix \/ HasPumpAuthority

Flattened == to_dict(Details)

\* C25: the flattened mapping of a record holds is_genuine_pump_fun_token exactly
\* when provenance was computed for the token, by suffix or by update authority,
\* and then first_transaction and transaction_count whenever they are set.
C25_ProvenanceKeys ==
    ReturnedDetails =>
        /\ ProvenanceComputed <=> "is_genuine_pump_fun_token" \in DOMAIN Flattened
        /\ ProvenanceComputed /\ pump.first_transaction # None
              => "first_transaction" \in DOMAIN Flattened
        /\ ProvenanceComputed /\ pump.transaction_count # None
              => "transaction_count" \in DOMAIN Flattened

\* ---- the extension set of a record (SpecClassify)

ExtensionKeys ==
    {"permanent_delegate", "transaction_fees", "transfer_hook", "confidential_transfers"}

\* C26: a record carries an extension set exactly when the owner program of its
\* account is the Token-2022 program; the flattened mapping of a base-token record
\* or of a NOT_A_TOKEN record has none of the four extension keys, that of a
\* Token-2022 record has the four.
C26_ExtensionSetIffToken2022 ==
    ReturnedDetails =>
        /\ Details.extensions # None <=> Payload.owner = Some(TOKEN_2022_PROGRAM)
        /\ IF Payload.owner = Some(TOKEN_2022_PROGRAM)
           THEN ExtensionKeys \subseteq DOMAIN Flattened
           ELSE ExtensionKeys \cap DOMAIN Flattened = {}

\* a base-token payload that lists extensions has been classified
C26_Witness ==
    /\ ReturnedDetails
    /\ Payload.owner = Some(TOKEN_PROGRAM)
    /\ Payload.extensions # << >>
    /\ Details.extensions = None
    /\ "security_review" \in DOMAIN Flattened

\* the type tags the classifier knows
KnownTags ==
    {"tokenMetadata", "permanentDelegate", "transferFeeConfig", "transferHook",
     "confidentialTransferMint"}

IsKnownEntry(e) == e.extension \in KnownTags

\* the payload without its entries of unknown type
WithoutUnknown(p) == [p EXCEPT !.extensions = SelectSeq(@, IsKnownEntry)]

\* C27: entries of info["extensions"] with an unknown type tag are ignored: the
\* record of a payload has the extension set, the name, the symbol and the verdict
\* of the record of the same payload without those entries, wherever they stand
\* in the list, and the classifier returns a record.
C27_UnknownEntriesIgnored ==
    Returned =>
        /\ result.kind = "TokenDetails"
        /\ LET plain == process_token_data(WithoutUnknown(Payload), address)[1]
           IN  /\ Details.extensions = plain.extensions
               /\ Details.name = plain.name
               /\ Details.symbol = plain.symbol
               /\ Details.security_review = plain.security_review

\* a Token-2022 payload with entries of unknown type before and after a permanent
\* delegate has been classified
C27_Witness ==
    /\ ReturnedDetails
    /\ Payload.owner = Some(TOKEN_2022_PROGRAM)
    /\ Len(Payload.extensions) = 3
    /\ Payload.extensions[1].extension = "metadataPointer"
    /\ Payload.extensions[2].extension = "permanentDelegate"
    /\ Payload.extensions[3].extension = "metadataPointer"
    /\ Payload.freezeAuthority = None
    /\ Details.security_review = "FAILED"
    /\ TheValue(Details.extensions).transfer_hook_authority = None

\* ---- the verdict and the later steps of the pipeline (Spec)

\* C28: the metadata step and the provenance step leave the verdict, the freeze
\* authority and the extension set as process_token_data made them from the
\* payload: the verdict of a returned record depends on the payload alone, not on
\* the metadata, the suffix, the provenance result or the number of passes.
C28_VerdictFromPayloadAlone ==
    ReturnedDetails =>
        /\ Details.security_review = PrimaryDecode.security_review
        /\ Details.freeze_authority = PrimaryDecode.freeze_authority
        /\ Details.extensions = PrimaryDecode.extensions
        /\ Details.security_review =
             (IF Payload.owner = Some(TOKEN_2022_PROGRAM)
              THEN (IF AnyRisk(Payload) THEN "FAILED" ELSE "PASSED")
              ELSE IF Payload.owner = Some(TOKEN_PROGRAM)
              THEN (IF Payload.freezeAuthority = None THEN "PASSED" ELSE "FAILED")
              ELSE "NOT_A_TOKEN")

\* a base token without freeze authority was returned on a second pass with its
\* metadata applied and a provenance check that found it not genuine
C28_Witness ==
    /\ ReturnedDetails
    /\ retry > 0
    /\ Payload.owner = Some(TOKEN_PROGRAM)
    /\ Payload.freezeAuthority = None
    /\ metadata # None
    /\ Details.name = "MetaName"
    /\ pump.transaction_count # None
    /\ ~Details.is_genuine_pump_fun_token
    /\ Details.security_review = "PASSED"

\* ---- sleeping tasks (SpecBatchWide)

Sleeping(i) == tasks[i].pc = "backoff"

\* C29: a backoff sleep suspends only the task that called it. With a limit of 2,
\* while an admitted task sleeps, another admitted task can post its request and
\* a task whose request is out can get its answer and return, the sleeper still
\* sleeping.
C29_SleepSuspendsCallerOnly ==
    \A i, j \in 1..Len(tasks) :
        i # j /\ Sleeping(i) =>
            /\ tasks[j].pc = "admitted"
                  => ENABLED (TaskPosts /\ tasks'[j].pc = "awaiting" /\ tasks'[i].pc = "backoff")
            /\ tasks[j].pc = "awaiting"
                  => ENABLED (TaskReturns /\ tasks'[j].pc = "done" /\ tasks'[i].pc = "backoff")

\* the first task sleeps before its second request, and the second task, which
\* was admitted with it, has posted its request and returned
C29_Witness ==
    /\ Len(tasks) = 2
    /\ Sleeping(1)
    /\ tasks[1].retry = 1
    /\ tasks[2].pc = "done"
    /\ tasks[2].posts = 1
    /\ completed = << 2 >>
    /\ semaphore = 1

\* ---- the passes of a lookup (LiveSpec)

\* C30: the metadata fetch of the pipeline and the provenance walk are performed
\* at most once in a lookup: they run on the first pass, and a pass that retries
\* the account-info call after a rate limit or a network failure runs neither
\* again.
C30_FetchAndWalkOnce ==
    pc \in {"get_metadata", "verify_get_metadata", "get_signatures_batch",
            "signatures_backoff", "get_transaction", "transaction_backoff"}
        => retry = 0

\* ---- the attempt budget of a lookup (Spec)

\* C31: whatever the order of the rate-limited and network-failure answers, a
\* lookup makes at most MAX_RETRIES = 4 account-info requests, the two kinds of
\* failure counted together, and what it returns is a record or an error string
\* that is not empty, never neither.
C31_SharedAttemptBudget ==
    /\ Len(outcomes) <= 4
    /\ pc = "get_account_info" => Len(outcomes) + 1 <= 4
    /\ Len(outcomes) = retry + (IF Returned THEN 1 ELSE 0)
    /\ Returned =>
          \/ /\ result.kind = "TokenDetails"
             /\ result.details # None
             /\ result.error = None
          \/ /\ result.kind = "str"
             /\ result.details = None
             /\ result.error # None
             /\ TheValue(result.error).text # ""

\* a lookup has returned an error after two rate limits and two network
\* failures, in turns
C31_Witness ==
    /\ Returned
    /\ outcomes = <<"rate_limited", "client_error", "rate_limited", "client_error">>
    /\ result.kind = "str"
    /\ TheValue(result.error).text = "Network error: "

\* ---- the permits of a batch (LiveSpecBatch)

\* task i is inside 'async with semaphore'
HoldsPermit(i) == tasks[i].pc \in {"admitted", "awaiting", "backoff"}

\* C32: a batch whose lookups terminate completes: gather returns in the end, and
\* it returns only when every task, the ones that had to wait for the semaphore
\* included, was admitted, posted its request and returned; the permits out are those
\* of the tasks inside 'async with', a sleeping task among them; a task that
\* returned a record or an error has given its permit back, and all
\* CONCURRENT_LIMIT = 1 permits are free once the batch has returned.
C32_BatchCompletes ==
    /\ <>(gathered # None)
    /\ [](gathered # None => \A i \in 1..Len(tasks) : tasks[i].pc = "done" /\ tasks[i].posts >= 1)
    /\ [](semaphore + Cardinality({i \in 1..Len(tasks) : HoldsPermit(i)}) = 1)
    /\ [](\A i \in 1..Len(tasks) : Sleeping(i) => HoldsPermit(i) /\ semaphore = 0)
    /\ [](gathered # None => semaphore = 1)

\* a batch of two has returned with all permits free, the first task after a
\* backoff with an error record, the second with a success record
C32_Witness ==
    /\ gathered # None
    /\ Len(tasks) = 2
    /\ semaphore = 1
    /\ tasks[1].retry > 0
    /\ TheValue(tasks[1].record).status = "error"
    /\ TheValue(tasks[2].record).status = "success"

\* ---- the trigger inside the verifier (Spec)

\* C33: when the pipeline found the trigger matched, by suffix or by update
\* authority, and called verify_pump_token, the verifier asked for the signature
\* history before it returned, whatever its own metadata fetch gave: it did not
\* return (False, None, 0) without a request.
C33_VerifierPagesWhenTriggered ==
    VerifyReturned /\ (HasPumpSuffix \/ HasPumpAuthority) => walk # NoWalk

\* ---- the result of the verifier (Spec)

\* C34: in every result of verify_pump_token, genuine implies a first
\* transaction and a count of at least 1; a first transaction is the last
\* signature of the last page fetched, and the count is then the number of
\* signatures collected over all pages.
C34_ResultConsistent ==
    VerifyReturned =>
        /\ pump.is_genuine =>
              /\ pump.first_transaction # None
              /\ TheValue(pump.transaction_count) >= 1
        /\ pump.first_transaction # None =>
              /\ walk.pages # << >>
              /\ walk.pages[Len(walk.pages)].signatures # << >>
              /\ pump.first_transaction = Some(LastOf(walk.pages[Len(walk.pages)]))
              /\ pump.transaction_count = Some(Len(Walked(walk.pages)))

\* a genuine result after two full pages and a short one, with a failed request
\* on the way
C34_Witness ==
    /\ VerifyReturned
    /\ pump.is_genuine
    /\ walk.faulted
    /\ Len(walk.pages) = 3
    /\ pump.first_transaction = Some(1)
    /\ pump.transaction_count = Some(5)

\* the pair returned by the lookup holds a record of one of the two token programs
LookupGaveToken ==
    /\ result.kind = "TokenDetails"
    /\ TheValue(result.details).owner_program[2] \in {"Token Program", "Token 2022 Program"}

\* C35: get_token never raises on a lookup result; it reports 'success' with the
\* flattened record exactly when the lookup returned a record owned by one of
\* the two token programs, and 'error' with a message exactly when the lookup
\* returned an error string or the address is not a token
C35_UiReportMatchesLookup ==
    report # None =>
        LET shown == TheValue(report)
        IN  /\ shown.raised = None
            /\ LookupGaveToken <=>
                   /\ shown.status = Some("success")
                   /\ shown.data = Some(to_dict(TheValue(result.details)))
            /\ ~LookupGaveToken <=>
                   /\ shown.status = Some("error")
                   /\ Truthy(shown.error)

\* ---- metadata update (Spec)

\* C37: the metadata is written into a returned record only when the payload is
\* owned by the base token program and get_metadata gave a dict: then name,
\* symbol and update_authority are the metadata's values; in the record of any
\* other owner, and when get_metadata gave None, name and symbol are those of
\* the primary decode and update_authority is absent
C37_MetadataAppliedToBaseTokenOnly ==
    ReturnedDetails =>
        IF Payload.owner = Some(TOKEN_PROGRAM) /\ metadata # None
        THEN /\ Details.name = TheValue(metadata).name
             /\ Details.symbol = TheValue(metadata).symbol
             /\ Details.update_authority = Some(TheValue(metadata).update_authority)
        ELSE /\ Details.name = PrimaryDecode.name
             /\ Details.symbol = PrimaryDecode.symbol
             /\ Details.update_authority = None

\* a base token whose payload names it otherwise was returned under the name,
\* symbol and update authority of its metadata account
C37_Witness ==
    /\ ReturnedDetails
    /\ Payload.owner = Some(TOKEN_PROGRAM)
    /\ metadata # None
    /\ Details.name = "MetaName"
    /\ Details.name # PrimaryDecode.name
    /\ Details.symbol = "META"
    /\ Details.symbol # PrimaryDecode.symbol
    /\ Details.update_authority = Some(PUMP_UPDATE_AUTHORITY)

====
